---- MODULE Spec2Model ----
(***************************************************************************)
(* langchain-skillkit: the skill gateway (SkillToolkit.load_skill /        *)
(* read_reference and SkillKit.Skill / SkillRead), the conversation-state  *)
(* reducers, the tool registry and the node-configuration validator, as a  *)
(* state machine over an abstract disk.                                    *)
(*                                                                         *)
(* Python strings that the code matches against a regular expression or    *)
(* joins into a path are sequences of one-character strings; a path is the *)
(* sequence of its segments below "/".  Tool names are atomic strings.     *)
(***************************************************************************)
EXTENDS Integers, Sequences, FiniteSets, TLC

VARIABLES
    disk,             \* which of the optional entries the disk holds
    registry,         \* ToolRegistry._tools, in insertion order
    available_tools,  \* AgentState.available_tools of each thread
    loaded_skills,    \* AgentState.loaded_skills of each thread
    last,             \* what the last operation did and returned
    node_doc,         \* the node configuration document given to create_agent
    built,            \* what validate_node_config / create_agent produced
    messages,         \* AgentState.messages of each thread
    sender,           \* AgentState.sender of each thread
    step,             \* what the last agent step bound and sent to the model
    descriptions,     \* the skills the descriptions of SkillKit's tools list
    race,             \* two concurrent updates of available_tools and their order
    graph,            \* the graph _build_graph compiled
    pc,               \* the node of the graph the engine runs next
    handler_runs,     \* how often the handler ran in this invocation
    checked,          \* a skill configuration and what validate_skill_config said
    declared,         \* the body of a node class and what declaring it did
    run               \* the input and the result of invoking the node's graph

vars == <<disk, registry, available_tools, loaded_skills, last, node_doc, built,
          messages, sender, step, descriptions, race, graph, pc, handler_runs,
          checked, declared, run>>

\* the declaration of a node class and the invocation of its graph
nodeVars == <<declared, run>>

\* concurrent updates of one thread
mergeVars == <<race>>

\* the compiled graph and its run
graphVars == <<graph, pc, handler_runs, nodeVars>>

\* the skill validator
skillVars == <<checked>>

\* the tools SkillKit.get_tools built
kitVars == <<descriptions>>

\* the state of the agent steps
agentVars == <<messages, sender, step>>

\* a local variable: Body is given the value v
Bind(v, Body(_)) == Body(v)

----------------------------------------------------------------------------
(* Characters and the two name patterns *)

Lower == {"a","b","c","d","e","f","g","h","i","j","k","l","m",
          "n","o","p","q","r","s","t","u","v","w","x","y","z"}
Upper == {"A","B","C","D","E","F","G","H","I","J","K","L","M",
          "N","O","P","Q","R","S","T","U","V","W","X","Y","Z"}
Digit == {"0","1","2","3","4","5","6","7","8","9"}
NL == "\n"

\* ord(): the characters in code-point order
AsciiOrder == <<"\n", "-", ".", "/",
                "0","1","2","3","4","5","6","7","8","9",
                "A","B","C","D","E","F","G","H","I","J","K","L","M",
                "N","O","P","Q","R","S","T","U","V","W","X","Y","Z",
                "_",
                "a","b","c","d","e","f","g","h","i","j","k","l","m",
                "n","o","p","q","r","s","t","u","v","w","x","y","z">>

Ord(c) == CHOOSE i \in 1..Len(AsciiOrder) : AsciiOrder[i] = c

\* str < str, as Python compares strings: at the first position where they
\* differ s has ended or holds the smaller character
StrLess(s, t) ==
    \E i \in 1..Len(t) :
        /\ i - 1 <= Len(s)
        /\ SubSeq(s, 1, i - 1) = SubSeq(t, 1, i - 1)
        /\ \/ i = Len(s) + 1
           \/ i <= Len(s) /\ Ord(s[i]) < Ord(t[i])

\* sorted(S) for a set of strings: the i-th has i-1 smaller ones
SortedStrs(S) ==
    IF S = {} THEN <<>>
    ELSE [i \in 1..Cardinality(S) |->
             CHOOSE x \in S : Cardinality({ y \in S : StrLess(y, x) }) = i - 1]

\* {0,63} of SKILL_NAME_PATTERN and {1,255} of REFERENCE_NAME_PATTERN
SkillNameMaxTail == 63
ReferenceNameMaxLen == 255

\* re.match of "^...$": "$" also matches just before a final newline
DollarStrip(s) ==
    IF Len(s) > 0 /\ s[Len(s)] = NL THEN SubSeq(s, 1, Len(s) - 1) ELSE s

SkillNameBody(s) ==
    /\ Len(s) >= 1
    /\ s[1] \in Lower
    /\ Len(s) - 1 <= SkillNameMaxTail
    /\ \A i \in 2..Len(s) : s[i] \in Lower \cup Digit \cup {"_", "-"}

\* the pattern with \Z for $: no newline after the name
SKILL_NAME_PATTERN_no_newline(s) == SkillNameBody(s)

\* SKILL_NAME_PATTERN.match(s) is not None
SKILL_NAME_PATTERN(s) == SkillNameBody(s) \/ SkillNameBody(DollarStrip(s))

ReferenceNameBody(s) ==
    /\ Len(s) >= 1
    /\ Len(s) <= ReferenceNameMaxLen
    /\ \A i \in 1..Len(s) : s[i] \in Lower \cup Upper \cup Digit \cup {"_", ".", "-"}

\* REFERENCE_NAME_PATTERN.match(s) is not None
REFERENCE_NAME_PATTERN(s) == ReferenceNameBody(s) \/ ReferenceNameBody(DollarStrip(s))

----------------------------------------------------------------------------
(* pathlib: joining, str(), resolve(), exists(), is_dir(), read_text() *)

SEP == "/"
DOT == <<".">>
DOTDOT == <<".", ".">>

\* the segments of a string split at "/", empty and "." segments dropped
Segments(s) ==
    LET cuts == {0} \cup { i \in 1..Len(s) : s[i] = SEP } \cup {Len(s) + 1}
        cut(k) == CHOOSE x \in cuts : Cardinality({ y \in cuts : y < x }) = k
        parts == [k \in 1..(Cardinality(cuts) - 1) |->
                     SubSeq(s, cut(k - 1) + 1, cut(k) - 1)]
        Kept(x) == x \notin {<<>>, DOT}
    IN  SelectSeq(parts, Kept)

\* base / s : an absolute s replaces base
Join(base, s) ==
    IF s # <<>> /\ Head(s) = SEP THEN Segments(s)
    ELSE base \o Segments(s)

\* str(path)
PathStr(p) ==
    LET upTo[n \in 0..Len(p)] ==
            IF n = 0 THEN <<>> ELSE upTo[n - 1] \o <<SEP>> \o p[n]
    IN  IF p = <<>> THEN <<SEP>> ELSE upTo[Len(p)]

\* s.startswith(prefix)
StartsWith(s, prefix) ==
    Len(prefix) <= Len(s) /\ SubSeq(s, 1, Len(prefix)) = prefix

Parent(p) == IF p = <<>> THEN <<>> ELSE SubSeq(p, 1, Len(p) - 1)

\* the text of a file: whether its front matter decodes ("ok"), is rejected by
\* the YAML decoder ("bad") or is absent ("nofm"), the decoded keys, the body
NoDoc == [yaml |-> "nofm", keys |-> {}, name |-> <<>>, description |-> "",
          tools |-> <<>>, body |-> ""]
TextDoc(b) == [NoDoc EXCEPT !.body = b]

AbsentNode == [kind |-> "absent", target |-> <<>>, doc |-> NoDoc]
DirNode == [kind |-> "dir", target |-> <<>>, doc |-> NoDoc]
FileNode(d) == [kind |-> "file", target |-> <<>>, doc |-> d]
LinkNode(t) == [kind |-> "link", target |-> t, doc |-> NoDoc]

\* lstat: the entry at a path whose directories are already resolved
NodeAt(fsys, p) == IF p \in DOMAIN fsys THEN fsys[p] ELSE AbsentNode

PathType == Seq(Seq(STRING))

\* Path.resolve(): symbolic links followed, ".." popped, missing parts kept;
\* from[cur, rest] resolves the segments rest below the resolved path cur
Resolve(fsys, p) ==
    LET from[cur \in PathType, rest \in PathType] ==
            IF rest = <<>> THEN cur
            ELSE IF Head(rest) = DOTDOT THEN from[Parent(cur), Tail(rest)]
            ELSE IF NodeAt(fsys, Append(cur, Head(rest))).kind = "link"
            THEN from[<<>>, NodeAt(fsys, Append(cur, Head(rest))).target \o Tail(rest)]
            ELSE from[Append(cur, Head(rest)), Tail(rest)]
    IN  from[<<>>, p]

\* stat: the entry a path leads to, links followed
Stat(fsys, p) == NodeAt(fsys, Resolve(fsys, p))

Exists(fsys, p) == Stat(fsys, p).kind # "absent"
IsDir(fsys, p) == Stat(fsys, p).kind = "dir"
IsFile(fsys, p) == Stat(fsys, p).kind = "file"

\* the names in a directory
IterDir(fsys, p) ==
    Bind(Resolve(fsys, p), LAMBDA r :
      { q[Len(q)] : q \in { x \in DOMAIN fsys :
                              /\ Len(x) = Len(r) + 1
                              /\ SubSeq(x, 1, Len(r)) = r
                              /\ fsys[x].kind # "absent" } })

\* Path.read_text(): the text, or the OSError it raises
ReadText(fsys, p) ==
    Bind(Resolve(fsys, p), LAMBDA r :
      Bind(NodeAt(fsys, r), LAMBDA n :
        CASE n.kind = "file" -> [raised |-> "none", doc |-> n.doc, at |-> {r}]
          [] n.kind = "dir" -> [raised |-> "IsADirectoryError", doc |-> NoDoc, at |-> {}]
          [] OTHER -> [raised |-> "FileNotFoundError", doc |-> NoDoc, at |-> {}]))

----------------------------------------------------------------------------
(* The disk *)

SKILL_MD == <<"S","K","I","L","L",".","m","d">>

\* SkillToolkit.skills_dir, already absolute: /s
SkillsDir == << <<"s">> >>
\* a directory beside the skills root whose name begins with the root's: /sx
OutsideDir == << <<"s","x">> >>

\* the second directory SkillKit is given: /t
SecondDir == << <<"t">> >>

SkillA == <<"a">>   \* declares allowed-tools [calculate]; has a file, a
                    \* subdirectory and two symbolic links beside SKILL.md
SkillB == <<"b">>   \* declares neither name nor allowed-tools
SkillC == <<"c">>   \* a symbolic link to /sx
SkillM == <<"m">>   \* its SKILL.md may hold front matter YAML rejects
SkillE == <<"e">>   \* a directory without SKILL.md

FileF == <<"f">>
DirD == <<"d">>
LinkL == <<"l">>    \* /s/a/l -> /s/b/f
LinkO == <<"o">>    \* /s/a/o -> /sx/f

DocA == [yaml |-> "ok", keys |-> {"name", "description", "allowed-tools"},
         name |-> SkillA, description |-> "A", tools |-> <<"calculate">>,
         body |-> "instructions of a"]
DocB == [yaml |-> "ok", keys |-> {"description"},
         name |-> <<>>, description |-> "B", tools |-> <<>>,
         body |-> "instructions of b"]
DocM == [yaml |-> "ok", keys |-> {"name", "description"},
         name |-> SkillM, description |-> "M", tools |-> <<>>,
         body |-> "instructions of m"]
DocMBad == [DocM EXCEPT !.yaml = "bad"]
DocTA == [yaml |-> "ok", keys |-> {"name", "description"},
          name |-> SkillA, description |-> "A of t", tools |-> <<>>,
          body |-> "instructions of t/a"]
DocX == [yaml |-> "ok", keys |-> {"name", "description"},
         name |-> <<"x">>, description |-> "X", tools |-> <<>>,
         body |-> "instructions outside the root"]

FsPaths ==
    { <<>>, SkillsDir, OutsideDir,
      SkillsDir \o <<SkillA>>, SkillsDir \o <<SkillA, SKILL_MD>>,
      SkillsDir \o <<SkillA, FileF>>, SkillsDir \o <<SkillA, DirD>>,
      SkillsDir \o <<SkillA, LinkL>>, SkillsDir \o <<SkillA, LinkO>>,
      SkillsDir \o <<SkillB>>, SkillsDir \o <<SkillB, SKILL_MD>>,
      SkillsDir \o <<SkillB, FileF>>,
      SkillsDir \o <<SkillC>>,
      SkillsDir \o <<SkillM>>, SkillsDir \o <<SkillM, SKILL_MD>>,
      SkillsDir \o <<SkillE>>,
      OutsideDir \o <<SKILL_MD>>, OutsideDir \o <<FileF>>,
      SecondDir, SecondDir \o <<SkillA>>, SecondDir \o <<SkillA, SKILL_MD>> }

\* the disk with skill b present or not, m's descriptor malformed or not, and
\* the link c present or not
Layout(bPresent, mBad, cLinked) ==
    [p \in FsPaths |->
        CASE p \in {<<>>, SkillsDir, OutsideDir, SecondDir, SecondDir \o <<SkillA>>,
                    SkillsDir \o <<SkillA>>,
                    SkillsDir \o <<SkillA, DirD>>, SkillsDir \o <<SkillM>>,
                    SkillsDir \o <<SkillE>>} -> DirNode
          [] p = SkillsDir \o <<SkillA, SKILL_MD>> -> FileNode(DocA)
          [] p = SkillsDir \o <<SkillA, FileF>> -> FileNode(TextDoc("text of a/f"))
          [] p = SkillsDir \o <<SkillA, LinkL>> -> LinkNode(SkillsDir \o <<SkillB, FileF>>)
          [] p = SkillsDir \o <<SkillA, LinkO>> -> LinkNode(OutsideDir \o <<FileF>>)
          [] p = SkillsDir \o <<SkillB>> -> IF bPresent THEN DirNode ELSE AbsentNode
          [] p = SkillsDir \o <<SkillB, SKILL_MD>> ->
                IF bPresent THEN FileNode(DocB) ELSE AbsentNode
          [] p = SkillsDir \o <<SkillB, FileF>> ->
                IF bPresent THEN FileNode(TextDoc("text of b/f")) ELSE AbsentNode
          [] p = SkillsDir \o <<SkillC>> ->
                IF cLinked THEN LinkNode(OutsideDir) ELSE AbsentNode
          [] p = SkillsDir \o <<SkillM, SKILL_MD>> ->
                FileNode(IF mBad THEN DocMBad ELSE DocM)
          [] p = SecondDir \o <<SkillA, SKILL_MD>> -> FileNode(DocTA)
          [] p = OutsideDir \o <<SKILL_MD>> -> FileNode(DocX)
          [] p = OutsideDir \o <<FileF>> -> FileNode(TextDoc("text of sx/f"))
          [] OTHER -> AbsentNode]

\* the states of the disk, and the file system of each
Disks == [b : BOOLEAN, m : BOOLEAN, c : BOOLEAN]
FsOf == [d \in Disks |-> Layout(d.b, d.m, d.c) @@ <<>>] @@ <<>>

----------------------------------------------------------------------------
(* Tool names and the registry *)

LOAD_SKILL == "load_skill"
READ_REFERENCE == "read_reference"

\* sorted() over the tool names that occur
ToolOrder == <<"calculate", "load_skill", "read_reference", "sql_query", "web_search">>

ToolNames == {"calculate", "sql_query", "web_search"}

SetOf(seq) == { seq[i] : i \in 1..Len(seq) }

SortedTools(S) ==
    LET In(x) == x \in S
    IN  SelectSeq(ToolOrder, In)

\* ToolRegistry.all_names()
all_names(reg) == { reg[i].name : i \in 1..Len(reg) }

\* ToolRegistry.__contains__
Contains(reg, name) == name \in all_names(reg)

\* the registry the gateway is constructed with
Registry0 == << [name |-> "web_search", ver |-> 1], [name |-> "calculate", ver |-> 1] >>

----------------------------------------------------------------------------
(* Conversation state reducers *)

Threads == {"t1", "t2"}
NoThread == "none"

\* a reducer that replaces the list instead of uniting
merge_replaces(current, update) == update

\* a reducer that appends, as operator.add does
merge_appends(current, update) == current \o update

\* a union that keeps the order of arrival instead of sorting
merge_unsorted(current, update) ==
    LET New(x) == x \notin SetOf(current)
    IN  current \o SelectSeq(update, New)

\* merge_available_tools(current, update); an absent current is <<>>
merge_available_tools(current, update) ==
    SortedTools(SetOf(current) \cup SetOf(update))

\* operator.add, the reducer of loaded_skills
operator_add(current, update) == current \o update

----------------------------------------------------------------------------
(* Front matter and SkillConfig *)

\* parse_frontmatter(path): the metadata keys and values and the body, or the
\* exception read_text or yaml.safe_load raises
parse_frontmatter(fsys, path) ==
    Bind(ReadText(fsys, path), LAMBDA t :
      IF t.raised # "none"
      THEN [raised |-> t.raised, keys |-> {}, meta |-> NoDoc, content |-> "", at |-> {}]
      ELSE IF t.doc.yaml = "nofm"
      THEN [raised |-> "none", keys |-> {}, meta |-> NoDoc, content |-> t.doc.body, at |-> t.at]
      ELSE IF t.doc.yaml = "bad"
      THEN [raised |-> "YAMLError", keys |-> {}, meta |-> NoDoc, content |-> "", at |-> t.at]
      ELSE [raised |-> "none", keys |-> t.doc.keys, meta |-> t.doc,
            content |-> t.doc.body, at |-> t.at])

\* langchain_agent_skills SkillConfig.from_directory(skill_dir)
SkillConfig_from_directory(fsys, skill_dir) ==
    Bind(parse_frontmatter(fsys, Join(skill_dir, SKILL_MD)), LAMBDA result :
      IF result.raised # "none"
      THEN [raised |-> result.raised, name |-> <<>>, instructions |-> "",
            allowed_tools |-> <<>>, reference_files |-> <<>>, at |-> result.at]
      ELSE [raised |-> "none",
            name |-> IF "name" \in result.keys THEN result.meta.name
                     ELSE skill_dir[Len(skill_dir)],
            instructions |-> result.content,
            allowed_tools |-> IF "allowed-tools" \in result.keys
                              THEN result.meta.tools ELSE <<>>,
            reference_files |->
                SortedStrs({ f \in IterDir(fsys, skill_dir) :
                               IsFile(fsys, Join(skill_dir, f)) /\ f # SKILL_MD }),
            at |-> result.at])

----------------------------------------------------------------------------
(* SkillToolkit *)

\* what a tool invocation gives back: a Command ("command"), a string
\* ("text"), the text of a ToolException that handle_tool_error=True turned
\* into the tool result ("error"), or an exception that leaves the tool
\* ("raise"); with the files it read (opened) and the paths it handed to the
\* file system (touched)
NoResult ==
    [outcome |-> "none", err |-> "", tools |-> <<>>, loaded |-> <<>>, text |-> "",
     listed |-> <<>>, opened |-> {}, touched |-> {}]
\* a failed precondition that comes back as a state update
ToolError_as_update(e, listed, opened, touched) ==
    [NoResult EXCEPT !.outcome = "command", !.err = e,
                     !.tools = <<LOAD_SKILL, READ_REFERENCE>>, !.listed = listed,
                     !.opened = opened, !.touched = touched]
ToolError(e, listed, opened, touched) ==
    [NoResult EXCEPT !.outcome = "error", !.err = e, !.listed = listed,
                     !.opened = opened, !.touched = touched]
Raise(x, opened, touched) ==
    [NoResult EXCEPT !.outcome = "raise", !.err = x, !.opened = opened,
                     !.touched = touched]
Command(tools, loaded, opened, touched) ==
    [NoResult EXCEPT !.outcome = "command", !.tools = tools, !.loaded = loaded,
                     !.opened = opened, !.touched = touched]
Text(t, opened, touched) ==
    [NoResult EXCEPT !.outcome = "text", !.text = t, !.opened = opened,
                     !.touched = touched]

\* SkillToolkit._resolve_skills_dir
resolve_skills_dir(fsys) == Resolve(fsys, SkillsDir)

\* SkillToolkit._validate_path_traversal: TRUE when no ToolException is raised
validate_path_traversal(resolved, base) ==
    StartsWith(PathStr(resolved), PathStr(base) \o <<SEP>>)

\* SkillToolkit._list_skills
list_skills(fsys) ==
    Bind(resolve_skills_dir(fsys), LAMBDA skills_dir :
      IF ~Exists(fsys, skills_dir) THEN <<>>
      ELSE SortedStrs({ d \in IterDir(fsys, skills_dir) :
                          /\ IsDir(fsys, Join(skills_dir, d))
                          /\ Exists(fsys, Join(Join(skills_dir, d), SKILL_MD)) }))

\* the paths _list_skills hands to the file system
list_skills_touched(fsys) ==
    Bind(resolve_skills_dir(fsys), LAMBDA skills_dir :
      {skills_dir}
      \cup (IF ~Exists(fsys, skills_dir) THEN {}
            ELSE Bind(IterDir(fsys, skills_dir), LAMBDA entries :
                   { Join(skills_dir, d) : d \in entries }
                   \cup { Join(Join(skills_dir, d), SKILL_MD) :
                            d \in { e \in entries :
                                      IsDir(fsys, Join(skills_dir, e)) } })))

\* an update that grants the registry whatever the skill declares
updated_tools_grants_registry(skill_tools, reg) ==
    SortedTools(SetOf(skill_tools) \cup {LOAD_SKILL, READ_REFERENCE} \cup all_names(reg))

\* an update that holds only what a restricted skill declares
updated_tools_declared_only(skill_tools, reg) ==
    SortedTools(IF skill_tools = <<>>
                THEN SetOf(skill_tools) \cup {LOAD_SKILL, READ_REFERENCE} \cup all_names(reg)
                ELSE SetOf(skill_tools))

\* the available_tools of load_skill's update
updated_tools(skill_tools, reg) ==
    SortedTools(IF skill_tools = <<>>
                THEN SetOf(skill_tools) \cup {LOAD_SKILL, READ_REFERENCE} \cup all_names(reg)
                ELSE SetOf(skill_tools) \cup {LOAD_SKILL, READ_REFERENCE})

\* the load_skill tool, invoked
load_skill(fsys, reg, skill_name) ==
    Bind(resolve_skills_dir(fsys), LAMBDA skills_dir :
    Bind(Join(Join(skills_dir, skill_name), SKILL_MD), LAMBDA skill_md :
    Bind(Resolve(fsys, skill_md), LAMBDA skill_path :
    Bind(list_skills(fsys), LAMBDA available :
    Bind(list_skills_touched(fsys), LAMBDA scanned :
    Bind(SkillConfig_from_directory(fsys, Join(skills_dir, skill_name)), LAMBDA config :
      IF ~SKILL_NAME_PATTERN(skill_name)
      THEN ToolError("Invalid skill name", available, {}, scanned)
      ELSE IF ~validate_path_traversal(skill_path, skills_dir)
      THEN ToolError("Path traversal detected", <<>>, {}, {skill_md})
      ELSE IF ~Exists(fsys, skill_path)
      THEN ToolError("not found", available, {}, {skill_md, skill_path} \cup scanned)
      ELSE IF config.raised # "none"
      THEN Raise(config.raised, config.at, {skill_md, skill_path})
      ELSE Command(updated_tools(config.allowed_tools, reg), <<skill_name>>,
                   config.at,
                   {skill_md, skill_path, Join(skills_dir, skill_name)})))))))

\* the read_reference tool, invoked
read_reference(fsys, skill_name, file_name) ==
    Bind(resolve_skills_dir(fsys), LAMBDA skills_dir :
    Bind(Join(Join(skills_dir, skill_name), file_name), LAMBDA file :
    Bind(Resolve(fsys, file), LAMBDA file_path :
    Bind(ReadText(fsys, file_path), LAMBDA t :
      IF ~SKILL_NAME_PATTERN(skill_name)
      THEN ToolError("Invalid skill name", list_skills(fsys), {},
                     list_skills_touched(fsys))
      ELSE IF ~REFERENCE_NAME_PATTERN(file_name)
      THEN ToolError("Invalid file name", <<>>, {}, {})
      ELSE IF ~validate_path_traversal(file_path, skills_dir)
      THEN ToolError("Path traversal detected", <<>>, {}, {file})
      ELSE IF ~Exists(fsys, file_path)
      THEN ToolError("Reference file not found", <<>>, {}, {file, file_path})
      ELSE IF t.raised # "none"
      THEN Raise(t.raised, t.at, {file, file_path})
      ELSE Text(t.doc.body, t.at, {file, file_path})))))

----------------------------------------------------------------------------
(* SkillKit *)

\* SkillKit.skills_dirs
KitSkillsDirs == <<SkillsDir, SecondDir>>

\* langchain_skillkit SkillConfig.from_directory(skill_dir)
KitSkillConfig_from_directory(fsys, skill_dir) ==
    Bind(parse_frontmatter(fsys, Join(skill_dir, SKILL_MD)), LAMBDA result :
      IF result.raised # "none"
      THEN [raised |-> result.raised, name |-> <<>>, description |-> "",
            instructions |-> "", reference_files |-> <<>>, at |-> result.at]
      ELSE [raised |-> "none",
            name |-> IF "name" \in result.keys THEN result.meta.name
                     ELSE skill_dir[Len(skill_dir)],
            description |-> IF "description" \in result.keys
                            THEN result.meta.description ELSE "",
            instructions |-> result.content,
            reference_files |->
                SortedStrs({ f \in IterDir(fsys, skill_dir) :
                               IsFile(fsys, Join(skill_dir, f)) /\ f # SKILL_MD }),
            at |-> result.at])

\* SkillKit._resolve_skills_dirs
resolve_skills_dirs(fsys) ==
    [i \in 1..Len(KitSkillsDirs) |-> Resolve(fsys, KitSkillsDirs[i])]

\* SkillKit._validate_path_traversal: TRUE when no ToolException is raised
kit_validate_path_traversal(resolved, base) ==
    StartsWith(PathStr(resolved), PathStr(base) \o <<SEP>>)

Reverse(seq) == [i \in 1..Len(seq) |-> seq[Len(seq) + 1 - i]]

\* skills_dir.iterdir(): the entries in the order the operating system gives
\* them, which the code does not choose; two orders stand for all
IterDirSeq(fsys, p, rev) ==
    Bind(SortedStrs(IterDir(fsys, p)), LAMBDA names :
      IF rev THEN Reverse(names) ELSE names)

\* the directories _build_skill_index parses, in the order it meets them
IndexCandidates(fsys, roots, rev) ==
    LET IsSkill(d) == /\ IsDir(fsys, d)
                      /\ Exists(fsys, Join(d, SKILL_MD))
        under(skills_dir) ==
            IF ~Exists(fsys, skills_dir) THEN <<>>
            ELSE Bind(IterDirSeq(fsys, skills_dir, rev), LAMBDA entries :
                   SelectSeq([i \in 1..Len(entries) |-> Join(skills_dir, entries[i])],
                             IsSkill))
        upTo[n \in 0..Len(roots)] ==
            IF n = 0 THEN <<>> ELSE upTo[n - 1] \o under(roots[n])
    IN  upTo[Len(roots)]

\* an index in which the last directory met wins
index_put_last_wins(index, name, d) == (name :> d) @@ index

\* "if config.name not in index: index[config.name] = d"
index_put(index, name, d) ==
    IF name \in DOMAIN index THEN index ELSE index @@ (name :> d)

\* the loop of _build_skill_index over those directories
RECURSIVE IndexFold(_, _, _, _)
IndexFold(fsys, cands, index, opened) ==
    IF cands = <<>> THEN [raised |-> "none", index |-> index, opened |-> opened]
    ELSE Bind(KitSkillConfig_from_directory(fsys, Head(cands)), LAMBDA config :
           IF config.raised # "none"
           THEN [raised |-> config.raised, index |-> index,
                 opened |-> opened \cup config.at]
           ELSE IndexFold(fsys, Tail(cands),
                          index_put(index, config.name, Head(cands)),
                          opened \cup config.at))

\* SkillKit._build_skill_index: canonical name -> directory, the files it read,
\* or the exception a descriptor raised
build_skill_index(fsys, rev) ==
    IndexFold(fsys, IndexCandidates(fsys, resolve_skills_dirs(fsys), rev), <<>>, {})

\* the paths _build_skill_index hands to the file system
build_skill_index_touched(fsys, rev) ==
    UNION { {skills_dir}
            \cup Bind(IterDir(fsys, skills_dir), LAMBDA entries :
                   { Join(skills_dir, d) : d \in entries }
                   \cup { Join(Join(skills_dir, d), SKILL_MD) :
                            d \in { e \in entries : IsDir(fsys, Join(skills_dir, e)) } })
          : skills_dir \in SetOf(resolve_skills_dirs(fsys)) }

\* SkillKit._list_skills, given the index
kit_list_skills(ix) == SortedStrs(DOMAIN ix.index)

\* no tool built
NoTools == [Skill |-> <<>>, SkillRead |-> <<>>]

\* SkillKit._build_available_skills_description: name and description of
\* every skill of the index, in the order of _list_skills
build_available_skills_description(fsys, rev) ==
    Bind(build_skill_index(fsys, rev), LAMBDA ix :
      IF ix.raised # "none" THEN [raised |-> ix.raised, entries |-> <<>>]
      ELSE Bind(kit_list_skills(ix), LAMBDA skill_names :
             [raised |-> "none",
              entries |->
                  [i \in 1..Len(skill_names) |->
                      Bind(KitSkillConfig_from_directory(fsys, ix.index[skill_names[i]]),
                           LAMBDA config :
                             [name |-> config.name,
                              description |-> config.description])]]))

\* SkillKit.get_tools: the skills each tool's description lists, fixed when
\* the tool is built; the description of SkillRead is a constant text
kit_get_tools(fsys, rev) ==
    Bind(build_available_skills_description(fsys, rev), LAMBDA available :
      [raised |-> available.raised,
       descriptions |-> [Skill |-> available.entries, SkillRead |-> <<>>]])

\* the Skill tool, invoked
skill(fsys, rev, skill_name) ==
    Bind(build_skill_index(fsys, rev), LAMBDA ix :
    Bind(build_skill_index_touched(fsys, rev), LAMBDA touched :
    Bind(ix.index[skill_name], LAMBDA skill_dir :
    Bind(Resolve(fsys, Join(skill_dir, SKILL_MD)), LAMBDA skill_path :
    Bind(KitSkillConfig_from_directory(fsys, skill_dir), LAMBDA config :
      IF ~SKILL_NAME_PATTERN(skill_name)
      THEN (IF ix.raised # "none" THEN Raise(ix.raised, ix.opened, touched)
            ELSE ToolError("Invalid skill name", kit_list_skills(ix), ix.opened, touched))
      ELSE IF ix.raised # "none" THEN Raise(ix.raised, ix.opened, touched)
      ELSE IF skill_name \notin DOMAIN ix.index
      THEN ToolError("not found", kit_list_skills(ix), ix.opened, touched)
      ELSE IF ~kit_validate_path_traversal(skill_path, Parent(skill_dir))
      THEN ToolError("Path traversal detected", <<>>, ix.opened, touched)
      ELSE IF config.raised # "none"
      THEN Raise(config.raised, ix.opened \cup config.at, touched)
      ELSE Text(config.instructions, ix.opened \cup config.at, touched))))))

\* the SkillRead tool, invoked
skill_read(fsys, rev, skill_name, file_name) ==
    Bind(build_skill_index(fsys, rev), LAMBDA ix :
    Bind(build_skill_index_touched(fsys, rev), LAMBDA touched :
    Bind(ix.index[skill_name], LAMBDA skill_dir :
    Bind(Join(skill_dir, file_name), LAMBDA file :
    Bind(Resolve(fsys, file), LAMBDA file_path :
    Bind(ReadText(fsys, file_path), LAMBDA t :
      IF ~SKILL_NAME_PATTERN(skill_name)
      THEN (IF ix.raised # "none" THEN Raise(ix.raised, ix.opened, touched)
            ELSE ToolError("Invalid skill name", kit_list_skills(ix), ix.opened, touched))
      ELSE IF ~REFERENCE_NAME_PATTERN(file_name)
      THEN ToolError("Invalid file name", <<>>, {}, {})
      ELSE IF ix.raised # "none" THEN Raise(ix.raised, ix.opened, touched)
      ELSE IF skill_name \notin DOMAIN ix.index
      THEN ToolError("not found", <<>>, ix.opened, touched)
      ELSE IF ~kit_validate_path_traversal(file_path, Parent(skill_dir))
      THEN ToolError("Path traversal detected", <<>>, ix.opened, touched \cup {file})
      ELSE IF ~Exists(fsys, file_path)
      THEN ToolError("Reference file not found", <<>>, ix.opened, touched \cup {file})
      ELSE IF t.raised # "none"
      THEN Raise(t.raised, ix.opened \cup t.at, touched \cup {file})
      ELSE Text(t.doc.body, ix.opened \cup t.at, touched \cup {file})))))))

----------------------------------------------------------------------------
(* The gateway as a state machine: threads call load_skill and              *)
(* read_reference, the graph engine applies the reducers, the disk changes  *)

\* at most this many successful loads in all threads together
MaxLoaded == 2

\* a name longer than the pattern admits
LongName == [i \in 1..(SkillNameMaxTail + 2) |-> "a"]

SkillNameInputs ==
    { SkillA, SkillB, SkillC, SkillM, SkillE,
      <<"A">>, <<".", ".", "/", "s", "x">>, <<"a", "\n">>, LongName }

FileNameInputs ==
    { FileF, DirD, LinkL, LinkO, DOT, DOTDOT, <<".", ".", "/", "b", "/", "f">> }

TotalLoaded(loaded, T) ==
    LET sum[U \in SUBSET T] ==
            IF U = {} THEN 0
            ELSE Len(loaded[CHOOSE x \in U : TRUE])
                 + sum[U \ {CHOOSE x \in U : TRUE}]
    IN  sum[T]

OpRecord(op, t, skill_name, file_name, r) ==
    [op |-> op, thread |-> t, skill_name |-> skill_name, file_name |-> file_name,
     outcome |-> r.outcome, err |-> r.err, tools |-> r.tools, loaded |-> r.loaded,
     text |-> r.text, listed |-> r.listed, opened |-> r.opened, touched |-> r.touched]

NoPrompt == [body |-> "", catalog |-> <<>>]
NoNodeDoc == [keys |-> {}, name |-> "", skills |-> <<>>, allowed_tools |-> <<>>]
NotBuilt == [op |-> "none", outcome |-> "none", errors |-> <<>>, message |-> <<>>,
             tool_names |-> {}, all_tools |-> <<>>, system_prompt |-> NoPrompt,
     node_name |-> "", extras |-> <<>>]

\* no concurrent updates, no graph, no configuration validated
NoRace == [prior |-> <<>>, updates |-> <<>>, applied |-> <<>>]
NoGraph == [nodes |-> {}, entry |-> "", conditional |-> FALSE, edges |-> {},
            all_tools |-> <<>>, state_schema |-> {}]
NoChecked == [name |-> <<>>, description |-> "", directory |-> <<>>,
              called |-> FALSE, errors |-> <<>>]
MergeIdle == race = NoRace
NoDeclared == [handler |-> "absent", params |-> <<>>, llm |-> FALSE,
               tools |-> "absent", skills |-> "None", called |-> FALSE,
               outcome |-> "none", injectable |-> {}]
NoRun == [called |-> FALSE, custom |-> FALSE, fields |-> {}]
NodeIdle == declared = NoDeclared /\ run = NoRun
GraphIdle == graph = NoGraph /\ pc = "" /\ handler_runs = 0 /\ NodeIdle
SkillIdle == checked = NoChecked

\* no agent step has run
NoStep == [thread |-> NoThread, bound |-> <<>>, sent |-> <<>>,
           update |-> [messages |-> <<>>, sender |-> ""]]
AgentIdle ==
    /\ messages = [t \in Threads |-> <<>>]
    /\ sender = [t \in Threads |-> ""]
    /\ step = NoStep

\* the two tools on every disk and input, evaluated once
LoadSkillOn ==
    [d \in Disks, n \in SkillNameInputs |-> load_skill(FsOf[d], Registry0, n)] @@ <<>>
ReadReferenceOn ==
    [d \in Disks, n \in SkillNameInputs, f \in FileNameInputs |->
        read_reference(FsOf[d], n, f)] @@ <<>>

Init ==
    /\ disk = [b |-> TRUE, m |-> TRUE, c |-> TRUE]
    /\ registry = Registry0
    /\ available_tools = [t \in Threads |-> <<>>]
    /\ loaded_skills = [t \in Threads |-> <<>>]
    /\ last = OpRecord("init", NoThread, <<>>, <<>>, NoResult)
    /\ node_doc = NoNodeDoc
    /\ built = NotBuilt
    /\ AgentIdle
    /\ descriptions = NoTools
    /\ MergeIdle /\ GraphIdle /\ SkillIdle

\* a tools step whose update reaches the state of every thread
LoadSkill_shared_state(t, skill_name) ==
    LET r == LoadSkillOn[disk, skill_name]
    IN  /\ registry = Registry0
        /\ r.outcome = "command" => TotalLoaded(loaded_skills, Threads) < MaxLoaded
        /\ last' = OpRecord("load_skill", t, skill_name, <<>>, r)
        /\ IF r.outcome = "command"
           THEN /\ available_tools' =
                      [u \in Threads |-> merge_available_tools(available_tools[u], r.tools)]
                /\ loaded_skills' =
                      [loaded_skills EXCEPT ![t] = operator_add(@, r.loaded)]
           ELSE UNCHANGED <<available_tools, loaded_skills>>
        /\ UNCHANGED <<disk, registry, node_doc, built>>
        /\ UNCHANGED <<agentVars, kitVars, mergeVars, graphVars, skillVars>>

\* thread t's tools step runs load_skill(skill_name); the engine applies the
\* returned Command's update through the reducers of AgentState
LoadSkill(t, skill_name) ==
    LET r == LoadSkillOn[disk, skill_name]
    IN  /\ registry = Registry0
        /\ r.outcome = "command" => TotalLoaded(loaded_skills, Threads) < MaxLoaded
        /\ last' = OpRecord("load_skill", t, skill_name, <<>>, r)
        /\ IF r.outcome = "command"
           THEN /\ available_tools' =
                      [available_tools EXCEPT ![t] = merge_available_tools(@, r.tools)]
                /\ loaded_skills' =
                      [loaded_skills EXCEPT ![t] = operator_add(@, r.loaded)]
           ELSE UNCHANGED <<available_tools, loaded_skills>>
        /\ UNCHANGED <<disk, registry, node_doc, built>>
        /\ UNCHANGED <<agentVars, kitVars, mergeVars, graphVars, skillVars>>

\* thread t's tools step runs read_reference(skill_name, file_name)
ReadReference(t, skill_name, file_name) ==
    /\ last' = OpRecord("read_reference", t, skill_name, file_name,
                        ReadReferenceOn[disk, skill_name, file_name])
    /\ UNCHANGED <<disk, registry, available_tools, loaded_skills, node_doc, built>>
    /\ UNCHANGED <<agentVars, kitVars, mergeVars, graphVars, skillVars>>

\* skill b is added to or removed from the disk between two calls
DiskChange ==
    /\ disk' = [disk EXCEPT !.b = ~@]
    /\ last' = OpRecord("disk", NoThread, <<>>, <<>>, NoResult)
    /\ UNCHANGED <<registry, available_tools, loaded_skills, node_doc, built>>
    /\ UNCHANGED <<agentVars, kitVars, mergeVars, graphVars, skillVars>>

Next ==
    \/ \E t \in Threads, n \in SkillNameInputs : LoadSkill(t, n)
    \/ \E t \in Threads, n \in SkillNameInputs, f \in FileNameInputs :
          ReadReference(t, n, f)
    \/ DiskChange

Spec == Init /\ [][Next]_vars

----------------------------------------------------------------------------
(* SkillKit as a state machine: Skill and SkillRead are called while the    *)
(* disk changes                                                             *)

KitNameInputs ==
    { SkillA, SkillB, SkillC, SkillM, SkillE, <<"x">>,
      <<"A">>, <<".", ".", "/", "s", "x">> }

SkillOn ==
    [d \in Disks, rev \in BOOLEAN, n \in KitNameInputs |-> skill(FsOf[d], rev, n)]
       @@ <<>>
SkillReadOn ==
    [d \in Disks, rev \in BOOLEAN, n \in KitNameInputs, f \in FileNameInputs |->
        skill_read(FsOf[d], rev, n, f)] @@ <<>>

BuildSkillIndexOn ==
    [d \in Disks, rev \in BOOLEAN |-> build_skill_index(FsOf[d], rev)] @@ <<>>
GetToolsOn ==
    [d \in Disks, rev \in BOOLEAN |-> kit_get_tools(FsOf[d], rev)] @@ <<>>

InitKit ==
    /\ disk = [b |-> TRUE, m |-> FALSE, c |-> FALSE]
    /\ registry = <<>>
    /\ available_tools = [t \in Threads |-> <<>>]
    /\ loaded_skills = [t \in Threads |-> <<>>]
    /\ last = OpRecord("init", NoThread, <<>>, <<>>, NoResult)
    /\ node_doc = NoNodeDoc
    /\ built = NotBuilt
    /\ AgentIdle
    /\ descriptions = GetToolsOn[disk, FALSE].descriptions
    /\ MergeIdle /\ GraphIdle /\ SkillIdle

\* the model calls Skill(skill_name)
Skill(rev, skill_name) ==
    /\ last' = OpRecord("Skill", NoThread, skill_name, <<>>, SkillOn[disk, rev, skill_name])
    /\ UNCHANGED <<disk, registry, available_tools, loaded_skills, node_doc, built>>
    /\ UNCHANGED <<agentVars, kitVars, mergeVars, graphVars, skillVars>>

\* the model calls SkillRead(skill_name, file_name)
SkillRead(rev, skill_name, file_name) ==
    /\ last' = OpRecord("SkillRead", NoThread, skill_name, file_name,
                        SkillReadOn[disk, rev, skill_name, file_name])
    /\ UNCHANGED <<disk, registry, available_tools, loaded_skills, node_doc, built>>
    /\ UNCHANGED <<agentVars, kitVars, mergeVars, graphVars, skillVars>>

\* between two calls skill b is added or removed, m's descriptor is damaged
\* or repaired, or the link c is made or deleted
KitDiskChange ==
    \E d \in Disks :
        /\ d # disk
        /\ disk' = d
        /\ last' = OpRecord("disk", NoThread, <<>>, <<>>, NoResult)
        /\ UNCHANGED <<registry, available_tools, loaded_skills, node_doc, built>>
        /\ UNCHANGED <<agentVars, kitVars, mergeVars, graphVars, skillVars>>

\* get_tools is called again: the tools are built anew, unless a descriptor
\* makes the construction raise
GetTools(rev) ==
    /\ Bind(GetToolsOn[disk, rev], LAMBDA tools :
          descriptions' = IF tools.raised = "none" THEN tools.descriptions
                          ELSE descriptions)
    /\ last' = OpRecord("get_tools", NoThread, <<>>, <<>>, NoResult)
    /\ UNCHANGED <<disk, registry, available_tools, loaded_skills, node_doc, built>>
    /\ UNCHANGED <<agentVars, mergeVars, graphVars, skillVars>>

NextKit ==
    \/ \E rev \in BOOLEAN : GetTools(rev)
    \/ \E rev \in BOOLEAN, n \in KitNameInputs : Skill(rev, n)
    \/ \E rev \in BOOLEAN, n \in KitNameInputs, f \in FileNameInputs :
          SkillRead(rev, n, f)
    \/ KitDiskChange

SpecKit == InitKit /\ [][NextKit]_vars

----------------------------------------------------------------------------
(* Node configuration, its validation and create_agent *)

\* a registry that keeps every registration as an entry of its own
register_appends(reg, name) == Append(reg, [name |-> name, ver |-> 1])

\* ToolRegistry.register(tool): a name already present keeps its place and
\* takes the new tool
register(reg, name) ==
    IF name \in all_names(reg)
    THEN [i \in 1..Len(reg) |->
             IF reg[i].name = name THEN [reg[i] EXCEPT !.ver = @ + 1] ELSE reg[i]]
    ELSE Append(reg, [name |-> name, ver |-> 1])

\* ToolRegistry.get_tools(names)
get_tools(reg, names) ==
    LET Registered(n) == Contains(reg, n)
    IN  SelectSeq(names, Registered)

\* ToolRegistry.all_tools(), by name
all_tools(reg) == [i \in 1..Len(reg) |-> reg[i].name]

\* NodeConfig.from_file, given the decoded document of the node file
NodeConfig_from_file(doc) ==
    IF "name" \notin doc.keys
    THEN [raised |-> "ValueError", missing |-> "name", name |-> "",
          skills |-> <<>>, allowed_tools |-> <<>>]
    ELSE IF "description" \notin doc.keys
    THEN [raised |-> "ValueError", missing |-> "description", name |-> "",
          skills |-> <<>>, allowed_tools |-> <<>>]
    ELSE [raised |-> "none", missing |-> "", name |-> doc.name,
          skills |-> IF "skills" \in doc.keys THEN doc.skills ELSE <<>>,
          allowed_tools |-> IF "allowed-tools" \in doc.keys
                            THEN doc.allowed_tools ELSE <<>>]

\* one error string of the validator, by its parts
ValidationError(kind, node, skill_name, tool_name, path) ==
    [kind |-> kind, node |-> node, skill |-> skill_name, tool |-> tool_name,
     path |-> path]

\* a first loop that stops at the first unknown tool
node_tool_errors_first_only(config, reg) ==
    LET Unknown(t) == ~Contains(reg, t)
    IN  IF SelectSeq(config.allowed_tools, Unknown) = <<>> THEN <<>>
        ELSE << ValidationError("unknown_tool", config.name, <<>>,
                                Head(SelectSeq(config.allowed_tools, Unknown)), <<>>) >>

\* validate_node_config, its first loop: the node's own allowed_tools
node_tool_errors(config, reg) ==
    LET Unknown(e) == ~Contains(reg, e.tool)
    IN  SelectSeq([i \in 1..Len(config.allowed_tools) |->
                      ValidationError("unknown_tool", config.name, <<>>,
                                      config.allowed_tools[i], <<>>)],
                  Unknown)

\* validate_node_config, one pass of its second loop: the errors of one
\* skill, or the exception parse_frontmatter raises
skill_errors(config, skill_name, reg, fsys) ==
    Bind(Join(Join(SkillsDir, skill_name), SKILL_MD), LAMBDA skill_md :
      IF ~Exists(fsys, skill_md)
      THEN [raised |-> "none",
            errors |-> << ValidationError("missing_skill", config.name, skill_name,
                                          "", skill_md) >>]
      ELSE Bind(parse_frontmatter(fsys, skill_md), LAMBDA result :
             IF result.raised # "none"
             THEN [raised |-> result.raised, errors |-> <<>>]
             ELSE LET tools == IF "allowed-tools" \in result.keys
                               THEN result.meta.tools ELSE <<>>
                      Unknown(e) == ~Contains(reg, e.tool)
                  IN  [raised |-> "none",
                       errors |->
                           SelectSeq([i \in 1..Len(tools) |->
                                         ValidationError("skill_unknown_tool", "",
                                                         skill_name, tools[i], <<>>)],
                                     Unknown)]))

\* validate_node_config(config, registry, skills_dir): the list of errors, or
\* the exception that ends it; after[n] is the list after n skills
validate_node_config(config, reg, fsys) ==
    LET after[n \in 0..Len(config.skills)] ==
            IF n = 0
            THEN [raised |-> "none", errors |-> node_tool_errors(config, reg)]
            ELSE Bind(after[n - 1], LAMBDA so_far :
                   IF so_far.raised # "none" THEN so_far
                   ELSE Bind(skill_errors(config, config.skills[n], reg, fsys),
                             LAMBDA found :
                               [raised |-> found.raised,
                                errors |-> IF found.raised # "none" THEN <<>>
                                           ELSE so_far.errors \o found.errors]))
    IN  after[Len(config.skills)]

\* build_skill_catalog(skill_names, skills_dir): the rows, or the exception
\* SkillConfig.from_directory raises; after[n] is the rows after n names
build_skill_catalog(skill_names, fsys) ==
    LET after[n \in 0..Len(skill_names)] ==
            IF n = 0 THEN [raised |-> "none", rows |-> <<>>]
            ELSE Bind(after[n - 1], LAMBDA so_far :
                   IF so_far.raised # "none" THEN so_far
                   ELSE IF ~Exists(fsys, Join(Join(SkillsDir, skill_names[n]), SKILL_MD))
                   THEN so_far
                   ELSE Bind(SkillConfig_from_directory(
                                 fsys, Join(SkillsDir, skill_names[n])),
                             LAMBDA config :
                               IF config.raised # "none"
                               THEN [raised |-> config.raised, rows |-> <<>>]
                               ELSE [raised |-> "none",
                                     rows |-> Append(so_far.rows, config.name)]))
    IN  after[Len(skill_names)]

\* a message that names the first error only
error_message_first_only(errors) == <<errors[1]>>

\* the lines of the ValueError create_agent raises
error_message(errors) == errors

NoAgent(outcome, errors, message) ==
    [op |-> "create_agent", outcome |-> outcome, errors |-> errors,
     message |-> message, tool_names |-> {}, all_tools |-> <<>>,
     system_prompt |-> NoPrompt,
     node_name |-> "", extras |-> <<>>]

\* SkillToolkit.get_tools(), by name
toolkit_get_tools == <<LOAD_SKILL, READ_REFERENCE>>

\* a node whose allowed-tools are ignored
node_tools_all_registry(config, reg) == all_tools(reg)

\* the registry tools of the node: those named in allowed-tools if there are
\* any, all of them otherwise
node_tools(config, reg) ==
    IF Len(config.allowed_tools) > 0
    THEN get_tools(reg, config.allowed_tools)
    ELSE all_tools(reg)

\* the system prompt: the body of the node file, then the catalog if it has rows
system_prompt_of(config, catalog) ==
    [body |-> config.name, catalog |-> catalog.rows]

\* create_agent(config_path, toolkit=..., llm=..., extra_tools=...): the node
\* function ("node") with the tools and the system prompt it closes over, or
\* the exception raised
create_agent(doc, reg, fsys, extra_tools) ==
    Bind(NodeConfig_from_file(doc), LAMBDA config :
      IF config.raised # "none"
      THEN NoAgent(config.raised, <<>>,
                   << ValidationError("missing_field", "", <<>>, config.missing, <<>>) >>)
      ELSE Bind(validate_node_config(config, reg, fsys), LAMBDA v :
             IF v.raised # "none" THEN NoAgent(v.raised, <<>>, <<>>)
             ELSE IF v.errors # <<>>
             THEN NoAgent("ValueError", v.errors, error_message(v.errors))
             ELSE Bind(build_skill_catalog(config.skills, fsys), LAMBDA catalog :
                    IF config.skills # <<>> /\ catalog.raised # "none"
                    THEN NoAgent(catalog.raised, <<>>, <<>>)
                    ELSE Bind(node_tools(config, reg) \o toolkit_get_tools
                                  \o extra_tools,
                              LAMBDA tools :
                                [op |-> "create_agent", outcome |-> "node",
                                 errors |-> <<>>, message |-> <<>>,
                                 tool_names |-> SetOf(tools),
                                 all_tools |-> tools,
                                 system_prompt |->
                                     system_prompt_of(config, catalog),
                                 node_name |-> config.name,
                                 extras |-> extra_tools]))))

----------------------------------------------------------------------------
(* Construction as a state machine: tools are registered, then the node     *)
(* configuration is validated and create_agent is called                    *)

\* a tool is registered at most this many times
MaxVersion == 2

NodeName == "researcher"

RegisterInputs == {"calculate", "web_search"}

\* the extra_tools given to create_agent
ExtraToolsInputs == { <<>>, <<"sql_query">> }

NodeSkillsInputs ==
    { <<>>, <<SkillA>>, << <<"z">> >>, <<SkillA, <<"z">> >>, <<SkillM>>,
      <<SkillB, SkillA>>, <<SkillC>>, << <<".", ".", "/", "s", "x">> >> }

NodeToolsInputs ==
    { <<>>, <<"calculate">>, <<"sql_query", "nope">>, <<"sql_query", "sql_query">> }

\* the node documents: with or without name and description, skills and
\* allowed-tools present when they are not empty
NodeDocs ==
    { [keys |-> required \cup (IF sk = <<>> THEN {} ELSE {"skills"})
                         \cup (IF at = <<>> THEN {} ELSE {"allowed-tools"}),
       name |-> NodeName, skills |-> sk, allowed_tools |-> at] :
        required \in { {"name", "description"}, {"name"}, {"description"}, {} },
        sk \in NodeSkillsInputs, at \in NodeToolsInputs }

InitValidate ==
    /\ disk \in Disks
    /\ registry = <<>>
    /\ available_tools = [t \in Threads |-> <<>>]
    /\ loaded_skills = [t \in Threads |-> <<>>]
    /\ last = OpRecord("init", NoThread, <<>>, <<>>, NoResult)
    /\ node_doc \in NodeDocs
    /\ built = NotBuilt
    /\ AgentIdle
    /\ descriptions = NoTools
    /\ MergeIdle /\ GraphIdle /\ SkillIdle

\* registry.register(tool)
Register(name) ==
    /\ \A i \in 1..Len(registry) : registry[i].name = name => registry[i].ver < MaxVersion
    /\ registry' = register(registry, name)
    /\ built' = NotBuilt
    /\ UNCHANGED <<disk, available_tools, loaded_skills, last, node_doc>>
    /\ UNCHANGED <<agentVars, kitVars, mergeVars, graphVars, skillVars>>

\* validate_node_config is called on the parsed node configuration
ValidateNodeConfig ==
    /\ NodeConfig_from_file(node_doc).raised = "none"
    /\ built' = Bind(validate_node_config(NodeConfig_from_file(node_doc), registry,
                                          FsOf[disk]),
                     LAMBDA v :
                       [op |-> "validate",
                        outcome |-> IF v.raised = "none" THEN "returned" ELSE v.raised,
                        errors |-> v.errors, message |-> <<>>, tool_names |-> {},
                        all_tools |-> <<>>, system_prompt |-> NoPrompt,
     node_name |-> "", extras |-> <<>>])
    /\ UNCHANGED <<disk, registry, available_tools, loaded_skills, last, node_doc>>
    /\ UNCHANGED <<agentVars, kitVars, mergeVars, graphVars, skillVars>>

\* create_agent is called on the node file
CreateAgent ==
    /\ \E extra_tools \in ExtraToolsInputs :
          built' = create_agent(node_doc, registry, FsOf[disk], extra_tools)
    /\ UNCHANGED <<disk, registry, available_tools, loaded_skills, last, node_doc>>
    /\ UNCHANGED <<agentVars, kitVars, mergeVars, graphVars, skillVars>>

NextValidate ==
    \/ \E name \in RegisterInputs : Register(name)
    \/ ValidateNodeConfig
    \/ CreateAgent

SpecValidate == InitValidate /\ [][NextValidate]_vars

----------------------------------------------------------------------------
(* The agent step as a state machine: create_agent has returned the node    *)
(* function; in each thread the engine runs it, runs the tool the model      *)
(* called and applies the updates through the reducers of AgentState         *)

\* a thread's history holds at most this many messages
MaxMessages == 4

Content(text) == [body |-> text, catalog |-> <<>>]
HumanMessage(text) == [type |-> "human", content |-> Content(text), tool_calls |-> <<>>]
SystemMessage(prompt) == [type |-> "system", content |-> prompt, tool_calls |-> <<>>]
AIMessage(tool_calls) == [type |-> "ai", content |-> Content(""), tool_calls |-> tool_calls]
ToolMessage(text) == [type |-> "tool", content |-> Content(text), tool_calls |-> <<>>]
ToolCall(name, skill_name) == [name |-> name, skill_name |-> skill_name]

\* every tool bound, whatever the state allows
active_tools_unfiltered(tools, available) == tools

\* the tools agent_node binds: those of all_tools the state's available_tools
\* names, all of them when it names none
active_tools(tools, available) ==
    LET Available(name) == name \in SetOf(available)
    IN  IF SetOf(available) # {} THEN SelectSeq(tools, Available) ELSE tools

\* the system message after the history
messages_for_llm_system_last(prompt, history) ==
    history \o <<SystemMessage(prompt)>>

\* the messages agent_node sends: the system prompt, then the history
messages_for_llm(prompt, history) == <<SystemMessage(prompt)>> \o history

\* add_messages applied to a history and the messages of an update
add_messages(history, update) == history \o update

\* agent_node(state): what it bound and sent, and the update it returns for the
\* model's response
agent_node(agent, t, state_messages, state_available, response) ==
    [thread |-> t,
     bound |-> active_tools(agent.all_tools, state_available),
     sent |-> messages_for_llm(agent.system_prompt, state_messages),
     update |-> [messages |-> <<response>>, sender |-> agent.node_name]]

\* the skills the model asks for
CalledSkills == { SkillA, SkillB, <<"A">> }

\* the model's answers: a final one, or a call of load_skill when it is bound
Responses(bound) ==
    { AIMessage(<<>>) }
    \cup (IF LOAD_SKILL \in SetOf(bound)
          THEN { AIMessage(<< ToolCall(LOAD_SKILL, n) >>) : n \in CalledSkills }
          ELSE {})

\* the node documents create_agent accepts on the disk of InitAgent
AgentDocs ==
    { [keys |-> {"name", "description"}
                \cup (IF sk = <<>> THEN {} ELSE {"skills"})
                \cup (IF at = <<>> THEN {} ELSE {"allowed-tools"}),
       name |-> NodeName, skills |-> sk, allowed_tools |-> at] :
        sk \in { <<>>, <<SkillA>> }, at \in { <<>>, <<"calculate">> } }

\* the available_tools a thread's input state holds
InitialAvailable == { <<>>, <<"load_skill", "web_search">>, <<"sql_query">> }

InitAgent ==
    /\ disk = [b |-> TRUE, m |-> FALSE, c |-> FALSE]
    /\ registry = Registry0
    /\ node_doc \in AgentDocs
    /\ \E extra_tools \in ExtraToolsInputs :
          built = create_agent(node_doc, registry, FsOf[disk], extra_tools)
    /\ available_tools \in [Threads -> InitialAvailable]
    /\ loaded_skills = [t \in Threads |-> <<>>]
    /\ last = OpRecord("init", NoThread, <<>>, <<>>, NoResult)
    /\ messages = [t \in Threads |-> <<HumanMessage("Hello")>>]
    /\ sender = [t \in Threads |-> ""]
    /\ step = NoStep
    /\ descriptions = NoTools
    /\ MergeIdle /\ GraphIdle /\ SkillIdle

LastMessage(t) == messages[t][Len(messages[t])]

\* the engine runs the node function in thread t and applies its update
AgentStep(t) ==
    /\ built.outcome = "node"
    /\ Len(messages[t]) < MaxMessages
    /\ LastMessage(t).type \in {"human", "tool"}
    /\ \E response \in Responses(active_tools(built.all_tools, available_tools[t])) :
          /\ step' = agent_node(built, t, messages[t], available_tools[t], response)
          /\ messages' = [messages EXCEPT ![t] = add_messages(@, step'.update.messages)]
          /\ sender' = [sender EXCEPT ![t] = step'.update.sender]
    /\ UNCHANGED <<disk, registry, available_tools, loaded_skills, last, node_doc, built>>
    /\ UNCHANGED <<kitVars, mergeVars, graphVars, skillVars>>

\* thread t's tools step runs the load_skill call of the last message
ToolsStep(t) ==
    /\ Len(messages[t]) < MaxMessages
    /\ LastMessage(t).type = "ai"
    /\ LastMessage(t).tool_calls # <<>>
    /\ Bind(LastMessage(t).tool_calls[1].skill_name, LAMBDA skill_name :
         Bind(LoadSkillOn[disk, skill_name], LAMBDA r :
           /\ last' = OpRecord("load_skill", t, skill_name, <<>>, r)
           /\ messages' = [messages EXCEPT ![t] =
                             add_messages(@, <<ToolMessage(r.outcome)>>)]
           /\ IF r.outcome = "command"
              THEN /\ available_tools' =
                         [available_tools EXCEPT ![t] = merge_available_tools(@, r.tools)]
                   /\ loaded_skills' =
                         [loaded_skills EXCEPT ![t] = operator_add(@, r.loaded)]
              ELSE UNCHANGED <<available_tools, loaded_skills>>))
    /\ UNCHANGED <<disk, registry, node_doc, built, sender, step>>
    /\ UNCHANGED <<kitVars, mergeVars, graphVars, skillVars>>

\* the user answers a final response of thread t
UserTurn(t) ==
    /\ Len(messages[t]) < MaxMessages
    /\ LastMessage(t).type = "ai"
    /\ LastMessage(t).tool_calls = <<>>
    /\ messages' = [messages EXCEPT ![t] = add_messages(@, <<HumanMessage("More")>>)]
    /\ UNCHANGED <<disk, registry, available_tools, loaded_skills, last, node_doc,
                   built, sender, step>>
    /\ UNCHANGED <<kitVars, mergeVars, graphVars, skillVars>>

NextAgent ==
    \/ \E t \in Threads : AgentStep(t)
    \/ \E t \in Threads : ToolsStep(t)
    \/ \E t \in Threads : UserTurn(t)

SpecAgent == InitAgent /\ [][NextAgent]_vars

----------------------------------------------------------------------------
(* Concurrent updates: two steps of one thread return updates of             *)
(* available_tools, which the engine applies through the reducer one after   *)
(* the other, in either order                                                *)

\* an update or a prior state holds at most this many names
MaxUpdateLen == 2

MergeThread == "t1"

\* current = None
None == <<"None">>

MergeNames == {"calculate", "load_skill", "web_search"}

\* lists of tool names, sorted or not, with or without repetitions
NameLists == UNION { [1..n -> MergeNames] : n \in 0..MaxUpdateLen }

\* the reducer as the engine calls it: "current or []"
merge_available_tools_reducer(current, update) ==
    merge_available_tools(IF current = None THEN <<>> ELSE current, update)

InitMerge ==
    /\ disk = [b |-> TRUE, m |-> FALSE, c |-> FALSE]
    /\ registry = Registry0
    /\ race \in [prior : NameLists \cup {None}, updates : NameLists \X NameLists,
                 applied : {<<>>}]
    /\ available_tools = [t \in Threads |-> IF t = MergeThread THEN race.prior ELSE <<>>]
    /\ loaded_skills = [t \in Threads |-> <<>>]
    /\ last = OpRecord("init", NoThread, <<>>, <<>>, NoResult)
    /\ node_doc = NoNodeDoc
    /\ built = NotBuilt
    /\ AgentIdle
    /\ descriptions = NoTools
    /\ GraphIdle /\ SkillIdle

\* the engine applies the update of step i, not applied before
ApplyUpdate(i) ==
    /\ i \in 1..Len(race.updates)
    /\ \A k \in 1..Len(race.applied) : race.applied[k] # i
    /\ available_tools' =
          [available_tools EXCEPT ![MergeThread] =
              merge_available_tools_reducer(@, race.updates[i])]
    /\ race' = [race EXCEPT !.applied = Append(@, i)]
    /\ UNCHANGED <<disk, registry, loaded_skills, last, node_doc, built>>
    /\ UNCHANGED <<agentVars, kitVars, graphVars, skillVars>>

NextMerge == \E i \in 1..2 : ApplyUpdate(i)

SpecMerge == InitMerge /\ [][NextMerge]_vars

----------------------------------------------------------------------------
(* The node graph as a state machine: _build_graph has compiled the graph   *)
(* of a node; the engine enters it, runs the handler, routes by the edges   *)
(* and runs the tools step                                                  *)

\* the history of an invocation holds at most this many messages, and the
\* handler runs at most this often
MaxGraphMessages == 6

END == "__end__"
TOOLS == "tools"

GraphThread == "t1"

\* the fields of langchain_skillkit's AgentState, which _build_graph gives
\* to StateGraph
AgentStateFields == {"messages", "sender"}

\* SkillKit.get_tools(), by name
kit_tool_names == <<"Skill", "SkillRead">>

\* a router that always dispatches to the tools step
should_continue_always_tools(state_messages) == TOOLS

\* _should_continue(state)
should_continue(state_messages) ==
    IF state_messages[Len(state_messages)].tool_calls # <<>> THEN TOOLS ELSE END

\* _build_graph(name, handler, llm, user_tools, skill_kit, injectable): the
\* nodes, the entry point and the edges of the compiled graph
build_graph(name, user_tools, has_skill_kit) ==
    Bind(user_tools \o (IF has_skill_kit THEN kit_tool_names ELSE <<>>),
         LAMBDA tools :
           IF tools # <<>>
           THEN [nodes |-> {name, TOOLS}, entry |-> name, conditional |-> TRUE,
                 edges |-> { <<TOOLS, name>> }, all_tools |-> tools,
                 state_schema |-> AgentStateFields]
           ELSE [nodes |-> {name}, entry |-> name, conditional |-> FALSE,
                 edges |-> { <<name, END>> }, all_tools |-> tools,
                 state_schema |-> AgentStateFields])

\* where the engine goes after a node, given the state the node left
next_node(g, node, state_messages) ==
    IF g.conditional /\ node = g.entry
    THEN should_continue(state_messages)
    ELSE (CHOOSE e \in g.edges : e[1] = node)[2]

\* what a handler may return: no message, a final answer, or a call of a tool
HandlerResults ==
    { <<>>, <<AIMessage(<<>>)>> }
    \cup { <<AIMessage(<< ToolCall(n, <<>>) >>)>> : n \in {"web_search", "Skill"} }

\* the histories an invocation starts from
GraphInputs ==
    { <<HumanMessage("hi")>>,
      <<HumanMessage("hi"), AIMessage(<<>>), HumanMessage("More")>> }

InitGraph ==
    /\ disk = [b |-> TRUE, m |-> FALSE, c |-> FALSE]
    /\ registry = Registry0
    /\ available_tools = [t \in Threads |-> <<>>]
    /\ loaded_skills = [t \in Threads |-> <<>>]
    /\ last = OpRecord("init", NoThread, <<>>, <<>>, NoResult)
    /\ node_doc = NoNodeDoc
    /\ built = NotBuilt
    /\ \E input \in GraphInputs :
          messages = [t \in Threads |-> IF t = GraphThread THEN input ELSE <<>>]
    /\ sender = [t \in Threads |-> ""]
    /\ step = NoStep
    /\ descriptions = NoTools
    /\ \E user_tools \in { <<>>, <<"web_search">> }, has_skill_kit \in BOOLEAN :
          graph = build_graph(NodeName, user_tools, has_skill_kit)
    /\ pc = ""
    /\ handler_runs = 0
    /\ NodeIdle
    /\ MergeIdle /\ SkillIdle

\* the graph is invoked: the engine goes to the entry point
Invoke ==
    /\ pc = ""
    /\ pc' = graph.entry
    /\ UNCHANGED <<disk, registry, available_tools, loaded_skills, last, node_doc, built>>
    /\ UNCHANGED <<agentVars, kitVars, mergeVars, skillVars, graph, handler_runs,
                   nodeVars>>

\* the engine runs _agent_node, which calls the handler, applies the update
\* it returns and follows the edge out of the node
RunHandler ==
    /\ pc = graph.entry
    /\ pc # ""
    /\ handler_runs < MaxGraphMessages
    /\ \E result \in HandlerResults :
          /\ Len(messages[GraphThread]) + Len(result) <= MaxGraphMessages
          /\ messages' = [messages EXCEPT ![GraphThread] = add_messages(@, result)]
          /\ pc' = next_node(graph, pc, messages'[GraphThread])
    /\ sender' = [sender EXCEPT ![GraphThread] = graph.entry]
    /\ handler_runs' = handler_runs + 1
    /\ UNCHANGED <<disk, registry, available_tools, loaded_skills, last, node_doc, built>>
    /\ UNCHANGED <<step, kitVars, mergeVars, skillVars, graph, nodeVars>>

\* the engine runs the tools step: one tool message for every call of the
\* last message, then the edge out of it
RunTools ==
    /\ pc = TOOLS
    /\ Bind(messages[GraphThread][Len(messages[GraphThread])].tool_calls,
            LAMBDA calls :
              /\ Len(messages[GraphThread]) + Len(calls) <= MaxGraphMessages
              /\ messages' = [messages EXCEPT ![GraphThread] =
                                add_messages(@, [i \in 1..Len(calls) |->
                                                   ToolMessage(calls[i].name)])])
    /\ pc' = next_node(graph, pc, messages'[GraphThread])
    /\ UNCHANGED <<disk, registry, available_tools, loaded_skills, last, node_doc, built>>
    /\ UNCHANGED <<sender, step, kitVars, mergeVars, skillVars, graph, handler_runs,
                   nodeVars>>

NextGraph ==
    \/ Invoke
    \/ RunHandler
    \/ RunTools

SpecGraph == InitGraph /\ [][NextGraph]_vars

----------------------------------------------------------------------------
(* The skill validator: validate_skill_config is called on a configuration  *)

\* {0,62} of _NAME_PATTERN
NamePatternMaxMiddle == 62

\* the first alternative of _NAME_PATTERN up to "$", and the second
NamePatternBody(s) ==
    \/ /\ Len(s) >= 2
       /\ Len(s) - 2 <= NamePatternMaxMiddle
       /\ s[1] \in Lower
       /\ \A i \in 2..(Len(s) - 1) :
             \/ s[i] \in Lower \cup Digit
             \/ s[i] = "-" /\ s[i + 1] # "-"
       /\ s[Len(s)] \in Lower \cup Digit
    \/ Len(s) = 1 /\ s[1] \in Lower

\* _NAME_PATTERN.match(s) is not None
NAME_PATTERN(s) == NamePatternBody(s) \/ NamePatternBody(DollarStrip(s))

\* validate_skill_config(config): the errors, by kind, in the order found
validate_skill_config(config) ==
    (IF config.name = <<>> THEN <<"missing name">>
     ELSE IF ~NAME_PATTERN(config.name) THEN <<"is invalid">>
     ELSE <<>>)
    \o (IF config.description = "" THEN <<"missing description">> ELSE <<>>)
    \o (IF config.name # <<>> /\ config.directory # <<>>
           /\ config.name # config.directory
        THEN <<"does not match directory name">> ELSE <<>>)

\* the names tried hold at most this many characters, two long ones apart
MaxNameLen == 3

NameAlphabet == {"a", "2", "-", "A", NL}

NameInputs ==
    UNION { [1..n -> NameAlphabet] : n \in 0..MaxNameLen }
    \cup { [i \in 1..(NamePatternMaxMiddle + 2) |-> "a"],
           [i \in 1..(NamePatternMaxMiddle + 3) |-> "a"] }

InitSkill ==
    /\ disk = [b |-> TRUE, m |-> FALSE, c |-> FALSE]
    /\ registry = Registry0
    /\ available_tools = [t \in Threads |-> <<>>]
    /\ loaded_skills = [t \in Threads |-> <<>>]
    /\ last = OpRecord("init", NoThread, <<>>, <<>>, NoResult)
    /\ node_doc = NoNodeDoc
    /\ built = NotBuilt
    /\ AgentIdle
    /\ descriptions = NoTools
    /\ MergeIdle /\ GraphIdle
    /\ \E name \in NameInputs, description \in {"", "desc"},
          directory \in {<<>>, <<"a">>} :
          checked = [name |-> name, description |-> description,
                     directory |-> directory, called |-> FALSE, errors |-> <<>>]

\* validate_skill_config(config) is called
ValidateSkillConfig ==
    /\ ~checked.called
    /\ checked' = [checked EXCEPT !.called = TRUE,
                                  !.errors = validate_skill_config(checked)]
    /\ UNCHANGED <<disk, registry, available_tools, loaded_skills, last, node_doc, built>>
    /\ UNCHANGED <<agentVars, kitVars, mergeVars, graphVars>>

NextSkill == ValidateSkillConfig

SpecSkill == InitSkill /\ [][NextSkill]_vars

----------------------------------------------------------------------------
(* Declaring a node: the metaclass reads the class body, checks it and      *)
(* builds the graph, which is then invoked                                  *)

POSITIONAL_ONLY == "POSITIONAL_ONLY"
POSITIONAL_OR_KEYWORD == "POSITIONAL_OR_KEYWORD"
VAR_POSITIONAL == "VAR_POSITIONAL"
KEYWORD_ONLY == "KEYWORD_ONLY"
VAR_KEYWORD == "VAR_KEYWORD"

\* _INJECTABLE_PARAMS
INJECTABLE_PARAMS == {"llm", "tools", "runtime"}

\* one parameter of inspect.signature(handler)
Param(kind, name, annotation) == [kind |-> kind, name |-> name, annotation |-> annotation]

\* _validate_handler_signature(handler, class_name), given the parameters of
\* the handler: the names to inject, or the ValueError
validate_handler_signature(params) ==
    IF params = <<>>
    THEN [raised |-> "ValueError", injectable |-> {}]
    ELSE IF params[1].kind \notin {POSITIONAL_ONLY, POSITIONAL_OR_KEYWORD}
    THEN [raised |-> "ValueError", injectable |-> {}]
    ELSE IF \E i \in 2..Len(params) :
               \/ params[i].kind = KEYWORD_ONLY /\ params[i].name \notin INJECTABLE_PARAMS
               \/ params[i].kind \in {POSITIONAL_ONLY, POSITIONAL_OR_KEYWORD}
    THEN [raised |-> "ValueError", injectable |-> {}]
    ELSE [raised |-> "none",
          injectable |-> { params[i].name :
                             i \in { k \in 2..Len(params) :
                                       params[k].kind = KEYWORD_ONLY } }]

\* _normalize_skills(skills): whether there is a SkillKit, or the TypeError
normalize_skills(skills) ==
    IF skills = "None" THEN [raised |-> "none", skill_kit |-> FALSE]
    ELSE IF skills \in {"SkillKit", "str", "list"}
    THEN [raised |-> "none", skill_kit |-> TRUE]
    ELSE [raised |-> "TypeError", skill_kit |-> FALSE]

\* list(user_tools), by name
user_tools_of(tools) ==
    IF tools \in {"list of one", "tuple of one"} THEN <<"web_search">> ELSE <<>>

NotDeclared(raised) == [outcome |-> raised, injectable |-> {}, graph |-> NoGraph]

\* _NodeMeta.__new__(mcs, name, bases, namespace) for a subclass of node
NodeMeta_new(name, namespace) ==
    IF namespace.handler = "absent" THEN NotDeclared("ValueError")
    ELSE IF namespace.handler # "callable" THEN NotDeclared("ValueError")
    ELSE Bind(validate_handler_signature(namespace.params), LAMBDA sig :
      IF sig.raised # "none" THEN NotDeclared(sig.raised)
      ELSE IF ~namespace.llm THEN NotDeclared("ValueError")
      ELSE IF namespace.tools \notin {"absent", "list", "list of one", "tuple of one"}
      THEN NotDeclared("ValueError")
      ELSE Bind(normalize_skills(namespace.skills), LAMBDA kit :
        IF kit.raised # "none" THEN NotDeclared(kit.raised)
        ELSE [outcome |-> "graph", injectable |-> sig.injectable,
              graph |-> build_graph(name, user_tools_of(namespace.tools),
                                    kit.skill_kit)]))

\* the first parameter of the handlers declared, with or without annotation
StateParams ==
    { Param(POSITIONAL_OR_KEYWORD, "state", ""),
      Param(POSITIONAL_OR_KEYWORD, "state", "WorkflowState"),
      Param(POSITIONAL_ONLY, "state", "") }

\* what follows the first parameter
RestParams ==
    { <<>>,
      <<Param(KEYWORD_ONLY, "llm", "")>>,
      <<Param(KEYWORD_ONLY, "llm", ""), Param(KEYWORD_ONLY, "tools", ""),
        Param(KEYWORD_ONLY, "runtime", "")>>,
      <<Param(KEYWORD_ONLY, "unknown", "")>>,
      <<Param(POSITIONAL_OR_KEYWORD, "extra", "")>>,
      <<Param(KEYWORD_ONLY, "llm", ""), Param(VAR_KEYWORD, "kwargs", "")>>,
      <<Param(VAR_POSITIONAL, "args", "")>>,
      <<Param(VAR_POSITIONAL, "args", ""), Param(KEYWORD_ONLY, "llm", "")>> }

\* the signatures of the handlers declared
Signatures ==
    { <<>>, <<Param(VAR_POSITIONAL, "args", "")>>, <<Param(VAR_KEYWORD, "kwargs", "")>>,
      <<Param(KEYWORD_ONLY, "llm", "")>> }
    \cup { <<first>> \o rest : first \in StateParams, rest \in RestParams }

\* the class bodies declared
Namespaces ==
    { [handler |-> h, params |-> IF h = "callable" THEN ps ELSE <<>>,
       llm |-> l, tools |-> ts, skills |-> sk] :
        h \in {"absent", "not callable", "callable"}, ps \in Signatures,
        l \in BOOLEAN,
        ts \in {"absent", "list", "list of one", "tuple of one", "str"},
        sk \in {"None", "str", "SkillKit", "int"} }

\* the input states of an invocation: with or without a field only a custom
\* state type declares
RunInputs == { {"messages"}, {"messages", "draft"} }

\* what the handler's update writes
HandlerWrites == { {"messages"}, {"messages", "sender"} }

InitNode ==
    /\ disk = [b |-> TRUE, m |-> FALSE, c |-> FALSE]
    /\ registry = Registry0
    /\ available_tools = [t \in Threads |-> <<>>]
    /\ loaded_skills = [t \in Threads |-> <<>>]
    /\ last = OpRecord("init", NoThread, <<>>, <<>>, NoResult)
    /\ node_doc = NoNodeDoc
    /\ built = NotBuilt
    /\ AgentIdle
    /\ descriptions = NoTools
    /\ MergeIdle /\ SkillIdle
    /\ graph = NoGraph /\ pc = "" /\ handler_runs = 0
    /\ \E namespace \in Namespaces :
          declared = [handler |-> namespace.handler, params |-> namespace.params,
                      llm |-> namespace.llm, tools |-> namespace.tools,
                      skills |-> namespace.skills, called |-> FALSE,
                      outcome |-> "none", injectable |-> {}]
    /\ run = NoRun

\* "class researcher(node): ..." is executed
DeclareNode ==
    /\ ~declared.called
    /\ Bind(NodeMeta_new(NodeName, declared), LAMBDA made :
          /\ declared' = [declared EXCEPT !.called = TRUE,
                                          !.outcome = made.outcome,
                                          !.injectable = made.injectable]
          /\ graph' = made.graph)
    /\ UNCHANGED <<disk, registry, available_tools, loaded_skills, last, node_doc, built>>
    /\ UNCHANGED <<agentVars, kitVars, mergeVars, skillVars, pc, handler_runs, run>>

\* the graph is invoked on an input state and the handler answers without a
\* tool call: the result holds the fields of the graph's state type that the
\* input or the handler's update gave a value
AinvokeNode ==
    /\ declared.outcome = "graph"
    /\ ~run.called
    /\ \E input \in RunInputs, writes \in HandlerWrites :
          run' = [called |-> TRUE, custom |-> "draft" \in input,
                  fields |-> (input \cup writes) \cap graph.state_schema]
    /\ UNCHANGED <<disk, registry, available_tools, loaded_skills, last, node_doc, built>>
    /\ UNCHANGED <<agentVars, kitVars, mergeVars, skillVars, graph, pc, handler_runs,
                   declared>>

NextNode ==
    \/ DeclareNode
    \/ AinvokeNode

SpecNode == InitNode /\ [][NextNode]_vars

----------------------------------------------------------------------------
(* Properties of the gateway *)

\* the file system now
Fs == FsOf[disk]

\* p is a strict descendant of directory d, segment by segment
StrictlyInside(p, d) == Len(p) > Len(d) /\ SubSeq(p, 1, Len(d)) = d

\* the allowed-tools that the descriptor of <skills_dir>/<name> declares
DeclaredTools(name) ==
    LET n == Stat(Fs, Join(Join(SkillsDir, name), SKILL_MD))
    IN  IF "allowed-tools" \in n.doc.keys THEN SetOf(n.doc.tools) ELSE {}

LoadSucceeded == last.op = "load_skill" /\ last.outcome = "command"

\* C1: in every step of every thread (a load that succeeds, a load that
\* fails, a read, a change of the disk) the available_tools after the step
\* contain the available_tools before it.
C1_AvailableToolsNeverShrink ==
    [][\A t \in Threads :
          SetOf(available_tools[t]) \subseteq SetOf(available_tools'[t])]_vars

\* a thread that held every registry tool has then loaded the restricted skill a
C1_Witness ==
    /\ LoadSucceeded
    /\ last.skill_name = SkillA
    /\ loaded_skills[last.thread] = <<SkillB, SkillA>>
    /\ "web_search" \in SetOf(available_tools[last.thread])

\* C2: the update of a successful load_skill(s) holds exactly s's declared
\* allowed-tools plus load_skill and read_reference when s declares some, and
\* exactly the registry's names plus those two when it declares none.
C2_LoadUpdateExact ==
    LoadSucceeded =>
        SetOf(last.tools) =
            IF DeclaredTools(last.skill_name) # {}
            THEN DeclaredTools(last.skill_name) \cup {LOAD_SKILL, READ_REFERENCE}
            ELSE all_names(registry) \cup {LOAD_SKILL, READ_REFERENCE}

\* the restricted skill a was loaded and its update leaves web_search out
C2_Witness ==
    /\ LoadSucceeded
    /\ last.skill_name = SkillA
    /\ DeclaredTools(SkillA) = {"calculate"}
    /\ "web_search" \in all_names(registry)
    /\ "web_search" \notin SetOf(last.tools)

\* C3: after a successful load_skill(x) in a thread, applying the same update
\* once more leaves available_tools as it is, and the load appended exactly
\* the one entry x to loaded_skills.
C3_LoadIdempotentAppendsOne ==
    [][(last'.op = "load_skill" /\ last'.outcome = "command") =>
          /\ merge_available_tools(available_tools'[last'.thread], last'.tools)
                = available_tools'[last'.thread]
          /\ loaded_skills'[last'.thread]
                = Append(loaded_skills[last'.thread], last'.skill_name)
          /\ \A u \in Threads \ {last'.thread} : loaded_skills'[u] = loaded_skills[u]]_vars

\* skill a was loaded twice in one thread
C3_Witness ==
    /\ LoadSucceeded
    /\ loaded_skills[last.thread] = <<SkillA, SkillA>>
    /\ available_tools[last.thread] = <<"calculate", LOAD_SKILL, READ_REFERENCE>>

IsToolCall == last.op \in {"load_skill", "read_reference", "Skill", "SkillRead"}
IsLoad == last.op \in {"load_skill", "Skill"}
IsRead == last.op \in {"read_reference", "SkillRead"}

\* the configured roots, resolved
Roots == {Resolve(Fs, SkillsDir)} \cup SetOf(resolve_skills_dirs(Fs))

\* C4: whatever a load or a read opened, for any skill name and file name and
\* with directory entries that are symbolic links, lies strictly below a
\* configured skills root; otherwise the call failed with an error and
\* opened nothing.
C4_OpenedOnlyBelowRoot ==
    IsToolCall =>
        \/ \A p \in last.opened : \E root \in Roots : StrictlyInside(p, root)
        \/ /\ last.outcome = "error"
           /\ last.opened = {}

\* C5: a read whose <skill directory>/<file name> resolves to a path that is
\* not strictly inside that skill's own directory (the directory itself, a
\* sibling skill's file, the skills root) is rejected with an error and
\* returns no content.
C5_ReadStaysInSkillDirectory ==
    (last.op = "read_reference" /\ SKILL_NAME_PATTERN(last.skill_name)) =>
        LET own == Resolve(Fs, Join(SkillsDir, last.skill_name))
            target == Resolve(Fs, Join(Join(SkillsDir, last.skill_name), last.file_name))
        IN  ~StrictlyInside(target, own) =>
                /\ last.outcome = "error"
                /\ last.text = ""

\* C6: a load or a read of a skill name that the slug pattern rejects returns
\* the "Invalid skill name" error and hands no path to the file system.
C6_RejectedNameTouchesNothing ==
    (IsToolCall /\ ~SKILL_NAME_PATTERN(last.skill_name)) =>
        /\ last.outcome = "error"
        /\ last.err = "Invalid skill name"
        /\ last.touched = {}
        /\ last.opened = {}

\* C7: a load reports the first failing check of (1) slug pattern, (2) path
\* containment, (3) existence by that check's own error: a rejected name is
\* always answered "Invalid skill name", and "Path traversal detected" or
\* "not found" are answered only for names the pattern accepts.
C7_LoadReportsFirstFailingCheck ==
    IsLoad =>
        /\ ~SKILL_NAME_PATTERN(last.skill_name) =>
              (last.outcome = "error" /\ last.err = "Invalid skill name")
        /\ (last.outcome = "error"
               /\ last.err \in {"Path traversal detected", "not found"}) =>
              SKILL_NAME_PATTERN(last.skill_name)

\* C8: every load and read, whatever the input and the disk, ends in a
\* result or in tool-result error text; no exception leaves the tool.
C8_NoExceptionLeavesTool ==
    IsToolCall => last.outcome \in {"command", "text", "error"}

----------------------------------------------------------------------------
(* Properties of validation and construction *)

\* the node configuration now
Config == NodeConfig_from_file(node_doc)

\* the allowed-tools entries that the descriptor of <skills_dir>/<name> lists
DeclaredToolList(name) ==
    LET n == Stat(Fs, Join(Join(SkillsDir, name), SKILL_MD))
    IN  IF "allowed-tools" \in n.doc.keys THEN n.doc.tools ELSE <<>>

\* the entries of allowed_tools that the registry does not hold
UnknownNodeTools ==
    { i \in 1..Len(Config.allowed_tools) :
        Config.allowed_tools[i] \notin all_names(registry) }

\* the entries of skills without a SKILL.md
MissingSkills ==
    { j \in 1..Len(Config.skills) :
        ~Exists(Fs, Join(Join(SkillsDir, Config.skills[j]), SKILL_MD)) }

\* the allowed-tools entries of the skills that resolve which the registry
\* does not hold
UnknownSkillTools ==
    UNION { { <<j, k>> : k \in { x \in 1..Len(DeclaredToolList(Config.skills[j])) :
                                   DeclaredToolList(Config.skills[j])[x]
                                       \notin all_names(registry) } } :
            j \in (1..Len(Config.skills)) \ MissingSkills }

\* C9: the list validate_node_config returns has one error for each
\* allowed_tools entry absent from the registry, one for each skills entry
\* whose SKILL.md is missing, and one for each allowed-tools entry of a
\* resolving skill absent from the registry; it is empty exactly when there is
\* none of them.
C9_ValidateCountsEveryViolation ==
    (built.op = "validate" /\ built.outcome = "returned") =>
        /\ Len(built.errors) = Cardinality(UnknownNodeTools)
                               + Cardinality(MissingSkills)
                               + Cardinality(UnknownSkillTools)
        /\ built.errors = <<>> <=>
              (UnknownNodeTools = {} /\ MissingSkills = {} /\ UnknownSkillTools = {})

\* two unknown tools, a missing skill and a skill with an unknown tool of its
\* own gave four errors
C9_Witness ==
    /\ built.op = "validate"
    /\ built.outcome = "returned"
    /\ Cardinality(UnknownNodeTools) = 2
    /\ Cardinality(MissingSkills) = 1
    /\ Cardinality(UnknownSkillTools) = 1
    /\ Len(built.errors) = 4

\* C10: create_agent gives a node function only when validate_node_config
\* returns no errors; when it returns errors create_agent raises one
\* ValueError whose message holds every one of them, and gives no node.
C10_NodeOnlyWhenValid ==
    built.op = "create_agent" =>
        LET v == validate_node_config(Config, registry, Fs)
        IN  /\ built.outcome = "node" =>
                  (Config.raised = "none" /\ v.raised = "none" /\ v.errors = <<>>)
            /\ (Config.raised = "none" /\ v.raised = "none" /\ v.errors # <<>>) =>
                  /\ built.outcome = "ValueError"
                  /\ SetOf(v.errors) \subseteq SetOf(built.message)
                  /\ built.tool_names = {}

\* create_agent refused a configuration with four violations in one ValueError
C10_Witness ==
    /\ built.op = "create_agent"
    /\ built.outcome = "ValueError"
    /\ Config.raised = "none"
    /\ Cardinality(SetOf(built.message)) = 4

\* the skills and allowed-tools the node document lists, whether or not it
\* holds the required fields
DocSkills == IF "skills" \in node_doc.keys THEN node_doc.skills ELSE <<>>
DocAllowedTools ==
    IF "allowed-tools" \in node_doc.keys THEN node_doc.allowed_tools ELSE <<>>

\* the configuration errors of the node document: required fields it lacks,
\* tools it names that the registry does not hold, skills without a SKILL.md
MissingFields == {"name", "description"} \ node_doc.keys
DocUnknownTools == SetOf(DocAllowedTools) \ all_names(registry)
DocMissingSkills ==
    { n \in SetOf(DocSkills) : ~Exists(Fs, Join(Join(SkillsDir, n), SKILL_MD)) }

\* C11: when the node document has configuration errors (missing name or
\* description, unknown tools, missing skills, in any combination) and every
\* descriptor decodes, create_agent fails with one ValueError whose message
\* lists every one of them.
C11_AllConstructionErrorsTogether ==
    (built.op = "create_agent" /\ ~disk.m
       /\ MissingFields \cup DocUnknownTools \cup DocMissingSkills # {}) =>
        /\ built.outcome = "ValueError"
        /\ \A f \in MissingFields :
              \E i \in 1..Len(built.message) :
                 built.message[i].kind = "missing_field" /\ built.message[i].tool = f
        /\ \A t \in DocUnknownTools :
              \E i \in 1..Len(built.message) :
                 built.message[i].kind = "unknown_tool" /\ built.message[i].tool = t
        /\ \A n \in DocMissingSkills :
              \E i \in 1..Len(built.message) :
                 built.message[i].kind = "missing_skill" /\ built.message[i].skill = n

----------------------------------------------------------------------------
(* Properties of the agent step *)

Named(available) == SetOf(available)

\* C12: an agent step binds the whole tool list of the node (registry tools
\* of the node, load_skill and read_reference, extras) when the state's
\* available_tools is empty, and otherwise exactly the tools of that list
\* whose name available_tools holds, in the order of the list; it never binds
\* a tool outside the list.
C12_BindsAvailableToolsOfFullList ==
    [][\A t \in Threads :
          AgentStep(t) =>
            /\ step'.thread = t
            /\ SetOf(step'.bound) \subseteq SetOf(built.all_tools)
            /\ IF available_tools[t] = <<>>
               THEN step'.bound = built.all_tools
               ELSE LET Listed(name) == name \in Named(available_tools[t])
                    IN  step'.bound = SelectSeq(built.all_tools, Listed)]_vars

\* a step that bound some but not all tools of the node, by a non-empty
\* available_tools
C12_Witness ==
    /\ step.thread \in Threads
    /\ step.bound # <<>>
    /\ SetOf(step.bound) # SetOf(built.all_tools)
    /\ SetOf(step.bound) = SetOf(built.all_tools) \cap Named(available_tools[step.thread])

\* C13: within one thread the tools bound to the model only grow: when the
\* thread's agent step runs again, after any tools steps and user turns in
\* between, every tool bound by its previous agent step is bound again.
C13_BoundToolsNeverShrink ==
    [][\A t \in Threads :
          (AgentStep(t) /\ step.thread = t) =>
              SetOf(step.bound) \subseteq SetOf(step'.bound)]_vars

\* C14: the tool set of a node create_agent returned is, when the node
\* document declares a non-empty allowed-tools, exactly the registry tools it
\* names, load_skill, read_reference and the extra tools, with no other
\* registry tool; without allowed-tools it is every registry tool,
\* load_skill, read_reference and the extra tools.
C14_NodeToolSet ==
    built.outcome = "node" =>
        /\ built.tool_names =
              (IF DocAllowedTools # <<>>
               THEN SetOf(DocAllowedTools) \cap all_names(registry)
               ELSE all_names(registry))
              \cup {LOAD_SKILL, READ_REFERENCE} \cup SetOf(built.extras)
        /\ DocAllowedTools # <<>> =>
              /\ SetOf(DocAllowedTools) \subseteq built.tool_names
              /\ \A n \in all_names(registry) :
                    n \in built.tool_names =>
                        n \in SetOf(DocAllowedTools) \cup SetOf(built.extras)

\* a node with allowed-tools and an extra tool, built while the registry
\* holds a tool the document does not name
C14_Witness ==
    /\ built.outcome = "node"
    /\ DocAllowedTools # <<>>
    /\ built.extras # <<>>
    /\ all_names(registry) \ SetOf(DocAllowedTools) # {}
    /\ all_names(registry) \ built.tool_names # {}

----------------------------------------------------------------------------
(* Properties of the SkillKit index *)

\* the directories _build_skill_index meets, roots in the order given and the
\* entries of a root in the order the operating system lists them
MetDirs(fsys, rev) == IndexCandidates(fsys, resolve_skills_dirs(fsys), rev)

\* the positions in that order of the directories whose descriptor declares name
Declaring(fsys, name, rev) ==
    Bind(MetDirs(fsys, rev), LAMBDA met :
      { i \in 1..Len(met) :
          KitSkillConfig_from_directory(fsys, met[i]).name = name })

Min(S) == CHOOSE i \in S : \A j \in S : i <= j

\* the first directory met that declares name
FirstDeclaring(fsys, name, rev) ==
    MetDirs(fsys, rev)[Min(Declaring(fsys, name, rev))]

\* the index of a disk holds one entry for every declared name, the first
\* directory met that declares it
IndexHoldsFirstDeclaring(fsys, rev) ==
    Bind(build_skill_index(fsys, rev), LAMBDA ix :
    Bind(MetDirs(fsys, rev), LAMBDA met :
      ix.raised = "none" =>
        /\ DOMAIN ix.index =
              { KitSkillConfig_from_directory(fsys, met[i]).name : i \in 1..Len(met) }
        /\ \A name \in DOMAIN ix.index :
              ix.index[name] = FirstDeclaring(fsys, name, rev)))

\* that property and the index, on every disk and listing order
IndexHoldsFirstDeclaringOn ==
    [d \in Disks, rev \in BOOLEAN |-> IndexHoldsFirstDeclaring(FsOf[d], rev)] @@ <<>>
InstructionsOfFirstOn ==
    [d \in Disks, rev \in BOOLEAN, name \in {SkillA, SkillB, SkillM} |->
        IF Declaring(FsOf[d], name, rev) = {} THEN ""
        ELSE Bind(KitSkillConfig_from_directory(
                      FsOf[d], FirstDeclaring(FsOf[d], name, rev)),
                  LAMBDA config :
                    IF config.raised = "none" THEN config.instructions ELSE "")] @@ <<>>
DeclaringOn ==
    [d \in Disks, rev \in BOOLEAN |-> Declaring(FsOf[d], SkillA, rev)] @@ <<>>

ListedNames(entries) == [i \in 1..Len(entries) |-> entries[i].name]

\* C16: whenever Skill or SkillRead is used, the description of each of the
\* two tools lists exactly the skills the index discovers on the disk as it
\* is then.
C16_DescriptionsListCurrentSkills ==
    (last.op \in {"Skill", "SkillRead"}) =>
        \A rev \in BOOLEAN :
            Bind(BuildSkillIndexOn[disk, rev], LAMBDA ix :
              ix.raised = "none" =>
                /\ ListedNames(descriptions.Skill) = kit_list_skills(ix)
                /\ ListedNames(descriptions.SkillRead) = kit_list_skills(ix))

----------------------------------------------------------------------------
(* Properties of the reducer *)

Prior == IF race.prior = None THEN {} ELSE SetOf(race.prior)

\* C17: when two steps update available_tools with the lists A and B, the
\* state after both holds every name of the prior state, of A and of B, and
\* is the same in whichever order the two were applied; merging is
\* commutative and associative over the updates, and no update applied
\* removes a name.
C17_MergeOrderIndependent ==
    LET A == race.updates[1]
        B == race.updates[2]
        now == available_tools[MergeThread]
    IN  race # NoRace =>
          /\ \A k \in 1..Len(race.applied) :
                SetOf(race.updates[race.applied[k]]) \cup Prior \subseteq SetOf(now)
          /\ Len(race.applied) = 2 =>
                /\ SetOf(now) = Prior \cup SetOf(A) \cup SetOf(B)
                /\ now = merge_available_tools_reducer(
                             merge_available_tools_reducer(race.prior, A), B)
                /\ now = merge_available_tools_reducer(
                             merge_available_tools_reducer(race.prior, B), A)
                /\ now = merge_available_tools_reducer(
                             race.prior, merge_available_tools_reducer(A, B))
                /\ merge_available_tools_reducer(A, B)
                      = merge_available_tools_reducer(B, A)

\* B was applied before A, the two differ, and the state holds all of both
C17_Witness ==
    /\ race # NoRace
    /\ race.applied = <<2, 1>>
    /\ SetOf(race.updates[1]) \ SetOf(race.updates[2]) # {}
    /\ SetOf(race.updates[2]) \ SetOf(race.updates[1]) # {}
    /\ Prior \ (SetOf(race.updates[1]) \cup SetOf(race.updates[2])) # {}
    /\ SetOf(available_tools[MergeThread])
          = Prior \cup SetOf(race.updates[1]) \cup SetOf(race.updates[2])

----------------------------------------------------------------------------
(* Properties of the node graph *)

HasToolCalls(state_messages) ==
    state_messages[Len(state_messages)].tool_calls # <<>>

\* C18: the run of a node's graph starts at the agent step.  With at least
\* one tool, the step after an agent step is the tools step if the last
\* message of the state has tool calls and the end otherwise, and the step
\* after a tools step is the agent step.  With no tool the agent step is
\* followed by the end, and the handler has then run once.
C18_ReasonActLoop ==
    [][/\ pc = "" => pc' = NodeName
       /\ pc = NodeName =>
             /\ handler_runs' = handler_runs + 1
             /\ IF graph.all_tools # <<>>
                THEN /\ pc' \in {TOOLS, END}
                     /\ pc' = TOOLS <=> HasToolCalls(messages'[GraphThread])
                ELSE pc' = END /\ handler_runs' = 1
       /\ pc = TOOLS => pc' = NodeName /\ handler_runs' = handler_runs
       /\ pc = END => pc' = END]_vars

\* a run with tools that went through the tools step and back, and ended
C18_Witness ==
    /\ pc = END
    /\ graph.all_tools # <<>>
    /\ handler_runs = 2
    /\ \E i \in 1..Len(messages[GraphThread]) : messages[GraphThread][i].type = "tool"

\* C19: every agent step sends the model the system message of the node
\* first and then the thread's history, as it was and in its order; the step
\* changes the history of the state only by adding the response at its end,
\* so the system message is never part of it.
C19_SystemMessageFirst ==
    [][\A t \in Threads :
          AgentStep(t) =>
            /\ Len(step'.sent) = Len(messages[t]) + 1
            /\ step'.sent[1] = SystemMessage(built.system_prompt)
            /\ \A i \in 1..Len(messages[t]) : step'.sent[i + 1] = messages[t][i]
            /\ Len(messages'[t]) = Len(messages[t]) + 1
            /\ \A i \in 1..Len(messages[t]) : messages'[t][i] = messages[t][i]
            /\ \A i \in 1..Len(messages'[t]) : messages'[t][i].type # "system"]_vars

\* an agent step on a history of three messages, of a node whose prompt
\* holds a catalog
C19_Witness ==
    /\ step.thread \in Threads
    /\ Len(step.sent) = 4
    /\ step.sent[1].type = "system"
    /\ step.sent[1].content.catalog # <<>>
    /\ step.sent[4].type = "tool"

----------------------------------------------------------------------------
(* Properties of the skill validator *)

\* 1 to 64 lowercase letters, digits and hyphens, no hyphen first or last and
\* no two hyphens in a row
WellFormedName(s) ==
    /\ Len(s) >= 1
    /\ Len(s) <= NamePatternMaxMiddle + 2
    /\ \A i \in 1..Len(s) : s[i] \in Lower \cup Digit \cup {"-"}
    /\ s[1] # "-"
    /\ s[Len(s)] # "-"
    /\ \A i \in 1..(Len(s) - 1) : ~(s[i] = "-" /\ s[i + 1] = "-")

InvalidErrors(errors) == { i \in 1..Len(errors) : errors[i] = "is invalid" }

\* C20: for a non-empty name validate_skill_config reports no "is invalid"
\* error exactly when the name is 1 to 64 lowercase letters, digits and
\* hyphens without a hyphen first, last or twice in a row, and one such error
\* for every other non-empty name.
C20_NameFormatError ==
    (checked.called /\ checked.name # <<>>) =>
        Cardinality(InvalidErrors(checked.errors))
            = (IF WellFormedName(checked.name) THEN 0 ELSE 1)

----------------------------------------------------------------------------
(* Properties of the node declaration *)

\* a callable handler whose first parameter is positional and whose other
\* parameters are **kwargs or keyword-only llm, tools or runtime; an llm;
\* tools that are a list or a tuple
WellDeclared ==
    /\ declared.handler = "callable"
    /\ Len(declared.params) >= 1
    /\ declared.params[1].kind \in {POSITIONAL_ONLY, POSITIONAL_OR_KEYWORD}
    /\ \A i \in 2..Len(declared.params) :
          \/ declared.params[i].kind = VAR_KEYWORD
          \/ /\ declared.params[i].kind = KEYWORD_ONLY
             /\ declared.params[i].name \in {"llm", "tools", "runtime"}
    /\ declared.llm
    /\ declared.tools \in {"absent", "list", "list of one", "tuple of one"}

\* C21: declaring a node builds a graph only if the class body is well
\* declared (handler, its parameters, llm, tools); every other declaration
\* raises ValueError and builds no graph.
C21_DeclarationChecked ==
    declared.called =>
        /\ declared.outcome = "graph" => WellDeclared
        /\ ~WellDeclared => declared.outcome = "ValueError" /\ graph = NoGraph

\* the fields of the custom state type the handler's first parameter names
WorkflowStateFields == {"messages", "draft"}

StateAnnotation == declared.params[1].annotation

\* C22: the state type of a node's graph is the annotation of the handler's
\* first parameter if it has one and AgentState otherwise, so a field of the
\* input that only the custom state type declares is in the result of an
\* invocation.
C22_StateTypeFromAnnotation ==
    declared.outcome = "graph" =>
        /\ graph.state_schema = (IF StateAnnotation = "WorkflowState"
                                 THEN WorkflowStateFields ELSE AgentStateFields)
        /\ (run.called /\ run.custom /\ StateAnnotation = "WorkflowState") =>
              "draft" \in run.fields

\* the place of a name in the registry, and the registration it holds (0: none)
RegistrationOf(reg, n) ==
    IF \E i \in 1..Len(reg) : reg[i].name = n
    THEN reg[CHOOSE i \in 1..Len(reg) : reg[i].name = n].ver
    ELSE 0

\* C23: after any sequence of register calls the registry holds one tool per
\* distinct name, its size is the number of distinct names, the lookup of a
\* name gives the tool registered last under it, and no step removes a name.
C23_RegistryLastWins ==
    [][ /\ \A i, j \in 1..Len(registry') :
              registry'[i].name = registry'[j].name => i = j
        /\ Len(registry') = Cardinality(all_names(registry'))
        /\ all_names(registry) \subseteq all_names(registry')
        /\ registry' # registry =>
              \E n \in RegisterInputs :
                 /\ all_names(registry') = all_names(registry) \cup {n}
                 /\ RegistrationOf(registry', n) = RegistrationOf(registry, n) + 1
                 /\ \A m \in all_names(registry) \ {n} :
                       RegistrationOf(registry', m) = RegistrationOf(registry, m)
      ]_vars

\* two names are registered, one of them a second time
C23_Witness ==
    /\ Len(registry) = 2
    /\ \E i \in 1..2 : registry[i].ver = 2

\* C24: threads are independent: a load_skill or read_reference of one thread
\* changes neither available_tools nor loaded_skills of another thread, and
\* changes neither the registry nor the directories the toolkit reads.
C24_ThreadsIndependent ==
    [][ last'.op \in {"load_skill", "read_reference"} =>
          /\ \A u \in Threads \ {last'.thread} :
                /\ available_tools'[u] = available_tools[u]
                /\ loaded_skills'[u] = loaded_skills[u]
          /\ registry' = registry
          /\ disk' = disk
      ]_vars

\* a thread has loaded a skill after the other thread has, with another result
C24_Witness ==
    /\ last.op = "load_skill" /\ last.outcome = "command" /\ last.thread = "t1"
    /\ loaded_skills["t2"] # <<>>
    /\ available_tools["t1"] # available_tools["t2"]

\* the SKILL.md that load_skill(name) resolves
SkillPathOf(name) == Resolve(Fs, Resolve(Fs, SkillsDir) \o <<name, SKILL_MD>>)

\* load_skill(name) fails a precondition: the name, the containment or the
\* existence of the descriptor
FailsPrecondition(name) ==
    \/ ~SKILL_NAME_PATTERN(name)
    \/ ~StrictlyInside(SkillPathOf(name), Resolve(Fs, SkillsDir))
    \/ ~Exists(Fs, SkillPathOf(name))

\* C25: a load_skill that fails a precondition returns error text only and
\* no update, so available_tools and loaded_skills stay as they are; a
\* read_reference, successful or failed, never produces an update.
C25_FailedLoadAndReadLeaveState ==
    [][ /\ (last'.op = "load_skill" /\ FailsPrecondition(last'.skill_name)) =>
              /\ last'.outcome = "error"
              /\ last'.tools = <<>> /\ last'.loaded = <<>>
              /\ available_tools' = available_tools
              /\ loaded_skills' = loaded_skills
        /\ last'.op = "read_reference" =>
              /\ last'.outcome # "command"
              /\ last'.tools = <<>> /\ last'.loaded = <<>>
              /\ available_tools' = available_tools
              /\ loaded_skills' = loaded_skills
      ]_vars

\* a load failed on a skill that is not there, in a thread that holds tools
C25_Witness ==
    /\ last.op = "load_skill" /\ last.outcome = "error" /\ last.err = "not found"
    /\ available_tools[last.thread] # <<>>
    /\ loaded_skills[last.thread] # <<>>

\* C26: a node made by create_agent loads only the skills its document
\* lists: a load_skill of a skill that is under the root but not in the list
\* does not succeed and unlocks no tools.
C26_LoadsOnlyListedSkills ==
    (/\ built.outcome = "node"
     /\ last.op = "load_skill"
     /\ last.skill_name \notin SetOf(DocSkills)) =>
        /\ last.outcome # "command"
        /\ last.tools = <<>>

C28_ListedSkillsLoad ==
    last.op = "Skill" =>
        \A rev \in BOOLEAN :
            Bind(BuildSkillIndexOn[disk, rev], LAMBDA ix :
              (ix.raised = "none" /\ last.skill_name \in SetOf(kit_list_skills(ix))) =>
                  last.outcome = "text")

\* C29: every skill name of a node configuration that validate_node_config
\* accepts against a skills root loads with load_skill on the same root,
\* unchanged: it passes the name, containment and existence checks.
C29_ValidatedSkillsLoad ==
    (built.op = "validate" /\ built.outcome = "returned" /\ built.errors = <<>>) =>
        \A n \in SetOf(Config.skills) :
            load_skill(Fs, registry, n).outcome = "command"

\* C30: every name validate_skill_config accepts as well-formed is accepted
\* by SKILL_NAME_PATTERN, the pattern of Skill, SkillRead, load_skill and
\* read_reference: a skill that passes the validator is not rejected as an
\* invalid name when it is loaded.
C30_ValidatedNamesPassGateway ==
    (checked.called /\ checked.name # <<>> /\ InvalidErrors(checked.errors) = {}) =>
        SKILL_NAME_PATTERN(checked.name)

\* the validator accepted a name of 64 characters, the longest both patterns
\* take
C30_Witness ==
    /\ checked.called
    /\ Len(checked.name) = NamePatternMaxMiddle + 2
    /\ Len(checked.name) = SkillNameMaxTail + 1
    /\ InvalidErrors(checked.errors) = {}
    /\ SKILL_NAME_PATTERN(checked.name)

====
